---------------------------- MODULE Spec2Model ----------------------------
(***************************************************************************)
(* Model of the jukebox server (backend/main.py, backend/yt_api.py):       *)
(* rooms with an ordered roster, a host pointer, a queue and a playback    *)
(* state; the per-connection session handler; the track-end ticker; the    *)
(* coupling of pending queue items to ingests.                             *)
(*                                                                         *)
(* Conventions.                                                            *)
(*  - An optional value (Python None) is a sequence: <<>> is None and      *)
(*    <<v>> is the value v.  A missing host pointer is the string "none".  *)
(*  - A dict is a sequence of entries in insertion order (users) or a      *)
(*    function whose DOMAIN is the set of keys (client_ips,                *)
(*    active_downloads_per_ip).                                            *)
(*  - A transport is "unopened", "ok" (client_state CONNECTED and sends    *)
(*    succeed), "broken" (client_state CONNECTED but send_json raises) or  *)
(*    "closed" (client_state is not CONNECTED).  The framework is not part *)
(*    of the repository, so its transitions are environment actions.       *)
(*  - Wall-clock time is the integer now; fields of a track that no        *)
(*    branch of the code looks at (title, artist, artwork, source, votes)  *)
(*    are left out of the records.                                         *)
(*  - out is the sequence of envelopes delivered by the last step, in the  *)
(*    order of the send_json calls.                                        *)
(***************************************************************************)
EXTENDS Integers, Sequences, FiniteSets, TLC

\* ------------------------------------------------------------------ bounds
MaxTime == 2
MaxIds == 1
MaxTickerIds == 2
MaxQueueIds == 2
MaxAuthIds == 1
MaxIngestIds == 2
MaxResumeIds == 2
MaxStateIds == 1
MaxOrderIds == 3
MaxTasks == 3
MaxRegistryIds == 1
MaxSkipIds == 3
MaxDeleteIds == 2
MaxRateTime == 3
MaxRestTasks == 1
MaxRestTime == 1
max_workers == 2

\* ------------------------------------------------------------ fixed sets
Rooms == {"r1", "r2"}
Conns == {"a", "b", "c"}
Ips == {"ip1", "ip2"}
Urls == {"u1"}
VideoIds == {"v1"}

\* ws.client.host: "a" and "b" connect from the same address
IpOf(ws) == IF ws = "c" THEN "ip2" ELSE "ip1"

\* the slugs a connection may open: "b" may open either room
SlugsOf(ws) == IF ws = "b" THEN Rooms ELSE {"r1"}

\* ws.client.port: one port per connection
PortOf(ws) == ws

None == <<>>
Some(v) == <<v>>

VARIABLES
    now,                      \* time.time()
    transport,                \* state of each WebSocket transport
    pc,                       \* position of each session (ws_endpoint)
    roomOf,                   \* the room a session was opened on
    rooms,                    \* main.rooms: per slug, how many Room objects were made for it
    users,                    \* Room.users, per room
    host,                     \* Room.host, per room
    queue,                    \* Room.queue, per room
    state,                    \* Room.state, per room
    client_ips,               \* main.client_ips
    active_downloads_per_ip,  \* yt_api.active_downloads_per_ip
    ingests,                  \* running start_pending_download tasks
    nextId,                   \* number of uuid4 values drawn so far
    out,                      \* envelopes delivered by the last step
    last,                     \* what the last step was
    download_queue,           \* yt_api.download_queue
    storage,                  \* the blob keys held by the storage bucket
    rate_limiter,             \* yt_api.rate_limiter
    locals                    \* local variables of a session's suspended handler

vars == <<now, transport, pc, roomOf, rooms, users, host, queue, state, client_ips,
          active_downloads_per_ip, ingests, nextId, out, last, download_queue, storage,
          rate_limiter, locals>>

\* the variables of the rooms, which a step of the download queue leaves alone
room_vars == <<now, transport, pc, roomOf, rooms, users, host, queue, state, client_ips,
               active_downloads_per_ip, ingests, nextId, out, last, locals>>

\* a step of the rooms leaves the download queue and the REST API alone
ApiIdle == UNCHANGED <<download_queue, storage, rate_limiter>>

\* the same for a step of a handler that keeps no local variable across a
\* suspension
DownloadIdle == ApiIdle /\ UNCHANGED locals

\* ------------------------------------------------------------- transports
\* ws.client_state.name == "CONNECTED"
Connected(ws) == transport[ws] \in {"ok", "broken"}

\* await ws.send_json(...) returns without raising
SendOk(ws) == transport[ws] = "ok"

\* ----------------------------------------------------------------- roster
InUsers(us, ws) == \E i \in 1..Len(us) : us[i].ws = ws

UserOf(us, ws) == us[CHOOSE i \in 1..Len(us) : us[i].ws = ws]

RoleOf(us, ws) == IF InUsers(us, ws) THEN UserOf(us, ws).role ELSE "none"

is_host_or_mod_AnyUser(us, ws) == InUsers(us, ws)

\* Room.is_host_or_mod
is_host_or_mod(us, ws) == InUsers(us, ws) /\ UserOf(us, ws).role \in {"host", "moderator"}

MinOf(S) == CHOOSE i \in S : \A j \in S : i <= j

\* index of the first connected moderator in dict order, 0 if there is none
FirstConnectedModerator(us) ==
    LET S == {i \in 1..Len(us) : us[i].role = "moderator" /\ Connected(us[i].ws)}
    IN  IF S = {} THEN 0 ELSE MinOf(S)

LastConnectedUser(us) ==
    LET S == {i \in 1..Len(us) : Connected(us[i].ws)}
    IN  IF S = {} THEN 0 ELSE CHOOSE i \in S : \A j \in S : i >= j

\* index of the first connected user in dict order, 0 if there is none
FirstConnectedUser(us) ==
    LET S == {i \in 1..Len(us) : Connected(us[i].ws)}
    IN  IF S = {} THEN 0 ELSE MinOf(S)

\* Room.get_active_users: the connected users, in dict order
get_active_users(us) == SelectSeq(us, LAMBDA u : Connected(u.ws))

FirstN(s, n) == IF Len(s) <= n THEN s ELSE SubSeq(s, 1, n)

\* one delivered envelope
Msg(to, r, type, p) == [to |-> to, room |-> r, type |-> type, p |-> p]

\* payload of users_sync: page 0, limit 10
UsersPayload(us) == [users |-> FirstN(get_active_users(us), 10),
                     total |-> Len(get_active_users(us))]

\* payload of user_info
InfoPayload(role) == [role |-> role, is_host |-> role = "host",
                      is_moderator |-> role \in {"host", "moderator"}]

\* A room's roster together with the envelopes delivered so far in this step.
Ros(us, h, o) == [users |-> us, host |-> h, out |-> o]

RECURSIVE broadcast(_, _, _, _), remove_user(_, _, _), RemoveDead(_, _, _)

\* Room.broadcast_users
broadcast_users(r, R) == broadcast(r, R, "users_sync", UsersPayload(R.users))

\* Room.broadcast: send to a snapshot of the users, then remove the dead ones
broadcast(r, R, type, p) ==
    LET snap == R.users
        sent == SelectSeq(snap, LAMBDA u : SendOk(u.ws))
        dead == SelectSeq(snap, LAMBDA u : ~SendOk(u.ws))
        delivered == [i \in 1..Len(sent) |-> Msg(sent[i].ws, r, type, p)]
    IN  RemoveDead(r, [R EXCEPT !.out = @ \o delivered], dead)

RemoveDead_First(r, R, dead) ==
    IF dead = <<>> THEN R ELSE [R EXCEPT !.users = SelectSeq(@, LAMBDA u : u.ws # Head(dead).ws)]

\* the loop "for ws in dead: await self.remove_user(ws)"
RemoveDead(r, R, dead) ==
    IF dead = <<>> THEN R
    ELSE RemoveDead(r, remove_user(r, R, Head(dead).ws), Tail(dead))

\* host succession inside remove_user, after the leaver was deleted
Succession(r, R) ==
    LET us == R.users
        m == FirstConnectedModerator(us)
        byMod == IF m > 0
                 THEN [users |-> [us EXCEPT ![m].role = "host"], host |-> us[m].ws]
                 ELSE [users |-> us, host |-> "none"]
        second == byMod.host = "none" /\ us # <<>>
        f == IF second THEN FirstConnectedUser(us) ELSE 0
        byAny == IF f > 0
                 THEN [users |-> [us EXCEPT ![f].role = "host"], host |-> us[f].ws]
                 ELSE byMod
        \* the user_info send sits inside the block of the second loop
        info == second /\ byAny.host # "none" /\ SendOk(byAny.host)
    IN  Ros(byAny.users, byAny.host,
            IF info THEN Append(R.out, Msg(byAny.host, r, "user_info", InfoPayload("host")))
                    ELSE R.out)

remove_user_Always(r, R, ws) ==
    broadcast_users(r, [R EXCEPT !.users = SelectSeq(R.users, LAMBDA u : u.ws # ws)])

\* Room.remove_user
remove_user(r, R, ws) ==
    IF ~InUsers(R.users, ws) THEN R
    ELSE LET was_host == UserOf(R.users, ws).role = "host"
             rest == SelectSeq(R.users, LAMBDA u : u.ws # ws)
             R1 == IF was_host /\ R.host = ws
                   THEN Succession(r, Ros(rest, "none", R.out))
                   ELSE [R EXCEPT !.users = rest]
         IN  broadcast_users(r, R1)

\* Room.add_user (the transport is connected: ws_endpoint checked it)
add_user(R, ws) ==
    IF R.host = "none" \/ ~Connected(R.host)
    THEN Ros(Append(R.users, [ws |-> ws, role |-> "host"]), ws, R.out)
    ELSE Ros(Append(R.users, [ws |-> ws, role |-> "listener"]), R.host, R.out)

\* ------------------------------------------------------------------ state
\* default PlaybackState of a new Room; alias tells whether state["track"]
\* is the very dict object of a queue item (so that patching the item in
\* place is seen through state["track"]) or a dict built by set_track
DefaultState == [track |-> None, alias |-> FALSE, is_playing |-> FALSE,
                 start_time |-> None, position |-> 0, duration |-> None]

\* ------------------------------------------------------------ rate limiter
\* RateLimiter(max_requests, time_window) as yt_api builds it from
\* YOUTUBE_DOWNLOAD_RATE_LIMIT and YOUTUBE_DOWNLOAD_RATE_WINDOW; times in seconds
max_requests == 2
time_window == 2

\* download_youtube's max_size_mb and the estimator's bitrate
max_size_mb == 10
audio_bitrate_kbps == 192

\* the identifiers is_allowed is called with ("default" by download_youtube)
Identities == {"default", "x"}

\* RateLimiter.__init__: requests is a defaultdict(list)
RateLimiter == [requests |-> [i \in Identities |-> <<>>]]

recent_Inclusive(rl, identifier, t) ==
    SelectSeq(rl.requests[identifier], LAMBDA q : t - q <= time_window)

\* is_allowed, "Clean old requests": the admissions younger than the window
recent(rl, identifier, t) ==
    SelectSeq(rl.requests[identifier], LAMBDA q : t - q < time_window)

\* is_allowed when time.time() reads t: the limiter afterwards and the answer
is_allowed(rl, identifier, t) ==
    LET kept == recent(rl, identifier, t)
    IN  IF Len(kept) < max_requests
        THEN [rl |-> [rl EXCEPT !.requests[identifier] = Append(kept, t)], ok |-> TRUE]
        ELSE [rl |-> [rl EXCEPT !.requests[identifier] = kept], ok |-> FALSE]

\* min(self.requests[identifier])
oldest(rl, identifier) ==
    LET l == rl.requests[identifier]
    IN  CHOOSE q \in {l[k] : k \in 1..Len(l)} : \A k \in 1..Len(l) : q <= l[k]

get_retry_after_Early(rl, identifier, t) ==
    IF rl.requests[identifier] = <<>> THEN 0
    ELSE LET wait == time_window - 1 - (t - oldest(rl, identifier))
         IN  IF wait > 0 THEN wait ELSE 0

\* get_retry_after when time.time() reads t; the list is not cleaned
get_retry_after(rl, identifier, t) ==
    IF rl.requests[identifier] = <<>> THEN 0
    ELSE LET wait == time_window - (t - oldest(rl, identifier))
         IN  IF wait > 0 THEN wait ELSE 0

\* DownloadQueue.__init__: no task, no worker started; a worker is at
\* "get" (waiting on queue.get) once started
DownloadQueue ==
    [queue |-> <<>>, tasks |-> <<>>, task_ids |-> <<>>, _running |-> FALSE,
     workers |-> [w \in 1..max_workers |-> [pc |-> "unstarted", task |-> 0, ret |-> None, file_exists |-> None]],
     worker_semaphore |-> max_workers]

InitCommon ==
    /\ now = 0
    /\ queue = [r \in Rooms |-> <<>>]
    /\ state = [r \in Rooms |-> DefaultState]
    /\ active_downloads_per_ip = <<>>
    /\ ingests = {}
    /\ nextId = 0
    /\ out = <<>>
    /\ last = [op |-> "init"]
    /\ download_queue = DownloadQueue
    /\ storage = {}
    /\ rate_limiter = RateLimiter
    /\ locals = [ws \in Conns |-> None]

\* the server after start-up: rooms exist, nobody is connected
InitRoster ==
    /\ InitCommon
    /\ transport = [ws \in Conns |-> "unopened"]
    /\ pc = [ws \in Conns |-> "idle"]
    /\ roomOf = [ws \in Conns |-> "r1"]
    /\ rooms = [r \in Rooms |-> IF r = "r1" THEN 1 ELSE 0]
    /\ users = [r \in Rooms |-> <<>>]
    /\ host = [r \in Rooms |-> "none"]
    /\ client_ips = <<>>

Roster(r) == Ros(users[r], host[r], <<>>)

SetRoster(r, R) ==
    /\ users' = [users EXCEPT ![r] = R.users]
    /\ host' = [host EXCEPT ![r] = R.host]
    /\ out' = R.out

DictSet(d, k, v) == [x \in DOMAIN d \cup {k} |-> IF x = k THEN v ELSE d[x]]
DictDel_Keep(d, k) == d

DictDel(d, k) == [x \in DOMAIN d \ {k} |-> d[x]]

\* ------------------------------------------------------------ environment
\* the peer goes away: sends start to fail, client_state is still CONNECTED
Break(ws) ==
    /\ transport[ws] = "ok"
    /\ pc[ws] # "idle"
    /\ transport' = [transport EXCEPT ![ws] = "broken"]
    /\ out' = <<>>
    /\ last' = [op |-> "break", ws |-> ws]
    /\ UNCHANGED <<now, pc, roomOf, rooms, users, host, queue, state, client_ips,
                   active_downloads_per_ip, ingests, nextId>>

\* the transport leaves the CONNECTED state while its user is still in the room
Close(ws) ==
    /\ transport[ws] \in {"ok", "broken"}
    /\ pc[ws] # "idle"
    /\ transport' = [transport EXCEPT ![ws] = "closed"]
    /\ out' = <<>>
    /\ last' = [op |-> "close", ws |-> ws]
    /\ UNCHANGED <<now, pc, roomOf, rooms, users, host, queue, state, client_ips,
                   active_downloads_per_ip, ingests, nextId>>

\* ------------------------------------------------------- session: join
\* Room(slug=slug): a new Room object, the number made for the slug counted
Room(made) == [made |-> made, queue |-> <<>>, state |-> DefaultState,
               users |-> <<>>, host |-> "none"]

get_or_create_room_Fresh(slug) == Room(rooms[slug] + 1)

\* get_or_create_room: the Room the registry holds for the slug, made first
\* when the registry holds none
get_or_create_room(slug) ==
    IF rooms[slug] = 0 THEN Room(1)
    ELSE [made |-> rooms[slug], queue |-> queue[slug], state |-> state[slug],
          users |-> users[slug], host |-> host[slug]]

\* ws_endpoint up to the first suspension: accept, get_or_create_room,
\* client_ips[ws] = client_ip, room.add_user
Join(ws, r) ==
    LET room == get_or_create_room(r)
    IN  /\ pc[ws] = "idle"
        /\ transport[ws] = "unopened"
        /\ transport' = [transport EXCEPT ![ws] = "ok"]
        /\ roomOf' = [roomOf EXCEPT ![ws] = r]
        /\ rooms' = [rooms EXCEPT ![r] = room.made]
        /\ queue' = [queue EXCEPT ![r] = room.queue]
        /\ state' = [state EXCEPT ![r] = room.state]
        /\ client_ips' = DictSet(client_ips, ws, IpOf(ws))
        /\ SetRoster(r, add_user(Ros(room.users, room.host, <<>>), ws))
        /\ pc' = [pc EXCEPT ![ws] = "join_bcast"]
        /\ last' = [op |-> "join", ws |-> ws, room |-> r]
        /\ UNCHANGED <<now, active_downloads_per_ip, ingests, nextId>>

\* ws_endpoint: await room.broadcast_users() after add_user
JoinBroadcast(ws) ==
    /\ pc[ws] = "join_bcast"
    /\ SetRoster(roomOf[ws], broadcast_users(roomOf[ws], Roster(roomOf[ws])))
    /\ pc' = [pc EXCEPT ![ws] = "join_trio"]
    /\ last' = [op |-> "join_bcast", ws |-> ws, room |-> roomOf[ws]]
    /\ UNCHANGED <<now, transport, roomOf, rooms, queue, state, client_ips,
                   active_downloads_per_ip, ingests, nextId>>

\* ws_endpoint: state_sync, queue_sync, user_info to the joiner; the three
\* sends are outside every try block, so a failing send ends the session
\* without any cleanup
JoinTrio(ws) ==
    LET r == roomOf[ws]
        role == RoleOf(users[r], ws)
    IN  /\ pc[ws] = "join_trio"
        /\ IF SendOk(ws)
           THEN /\ out' = << Msg(ws, r, "state_sync", state[r]),
                             Msg(ws, r, "queue_sync", queue[r]),
                             Msg(ws, r, "user_info", InfoPayload(role)) >>
                /\ pc' = [pc EXCEPT ![ws] = "loop"]
           ELSE /\ out' = <<>>
                /\ pc' = [pc EXCEPT ![ws] = "done"]
        /\ last' = [op |-> "join_trio", ws |-> ws, room |-> r]
        /\ UNCHANGED <<now, transport, roomOf, rooms, users, host, queue, state, client_ips,
                       active_downloads_per_ip, ingests, nextId>>

\* ------------------------------------------------------ session: leave
\* receive_json raises WebSocketDisconnect (the framework leaves the
\* CONNECTED state in the same step): remove_user, del client_ips[ws]
Leave(ws) ==
    LET r == roomOf[ws]
    IN  /\ pc[ws] = "loop"
        /\ transport' = [transport EXCEPT ![ws] = "closed"]
        /\ LET R == remove_user(r, Roster(r), ws)
           IN  /\ users' = [users EXCEPT ![r] = R.users]
               /\ host' = [host EXCEPT ![r] = R.host]
               /\ out' = R.out
        /\ client_ips' = DictDel(client_ips, ws)
        /\ pc' = [pc EXCEPT ![ws] = "done"]
        /\ last' = [op |-> "leave", ws |-> ws, room |-> r,
                    was_host |-> RoleOf(users[r], ws) = "host" /\ host[r] = ws]
        /\ UNCHANGED <<now, roomOf, rooms, queue, state, active_downloads_per_ip, ingests, nextId>>

\* ------------------------------------------------- session: command loop
\* a command is read by receive_json in the loop of a session whose peer is
\* alive; "user = room.get_user(ws); if not user: continue" skips the rest
InLoop(ws) ==
    /\ pc[ws] = "loop"
    /\ transport[ws] = "ok"
    /\ InUsers(users[roomOf[ws]], ws)

\* the error envelope of a refused command, sent to the sender only
ErrorTo(ws, message) == << Msg(ws, roomOf[ws], "error", message) >>

\* a refused command: nothing but the error envelope
Refuse(ws, op, message) ==
    /\ out' = ErrorTo(ws, message)
    /\ last' = [op |-> op, ws |-> ws, room |-> roomOf[ws], ok |-> FALSE,
                role |-> RoleOf(users[roomOf[ws]], ws)]
    /\ UNCHANGED <<now, transport, pc, roomOf, rooms, users, host, queue, state, client_ips,
                   active_downloads_per_ip, ingests, nextId>>

MaySetModerator_AnyMod(us, ws) == is_host_or_mod(us, ws)

\* set_moderator: may the sender change roles
MaySetModerator(us, ws) == RoleOf(us, ws) = "host"

\* set_moderator: index of the first connected user with the target address
\* (and port, when one is given), 0 if there is none
FindTarget(us, target_ip, target_port) ==
    LET S == {i \in 1..Len(us) :
                /\ IpOf(us[i].ws) = target_ip
                /\ Connected(us[i].ws)
                /\ (target_port # "none" => PortOf(us[i].ws) = target_port)}
    IN  IF S = {} THEN 0 ELSE MinOf(S)

moderator_role_Host(is_moderator) == IF is_moderator THEN "host" ELSE "listener"

\* set_moderator: the role given to the target
moderator_role(is_moderator) == IF is_moderator THEN "moderator" ELSE "listener"

\* ws_endpoint, t == "set_moderator"
SetModerator(ws, target_ip, target_port, is_moderator) ==
    LET r == roomOf[ws]
        us == users[r]
        t == FindTarget(us, target_ip, target_port)
        role == moderator_role(is_moderator)
    IN  /\ InLoop(ws)
        /\ IF ~MaySetModerator(us, ws)
           THEN Refuse(ws, "set_moderator", "Only hosts can set moderator status")
           ELSE IF target_ip = "none"
           THEN Refuse(ws, "set_moderator", "Invalid target user")
           ELSE IF t = 0
           THEN Refuse(ws, "set_moderator", "User not found")
           ELSE IF us[t].role = "host"
           THEN Refuse(ws, "set_moderator", "Cannot change host's role")
           ELSE LET us1 == [us EXCEPT ![t].role = role]
                    o1 == IF SendOk(us[t].ws)
                          THEN << Msg(us[t].ws, r, "user_info",
                                      [role |-> role, is_host |-> FALSE,
                                       is_moderator |-> role = "moderator"]) >>
                          ELSE <<>>
                IN  /\ SetRoster(r, broadcast_users(r, Ros(us1, host[r], o1)))
                    /\ last' = [op |-> "set_moderator", ws |-> ws, room |-> r, ok |-> TRUE,
                                role |-> RoleOf(us, ws), target |-> us[t].ws,
                                is_moderator |-> is_moderator]
                    /\ UNCHANGED <<now, transport, pc, roomOf, rooms, queue, state, client_ips,
                                   active_downloads_per_ip, ingests, nextId>>

\* ws_endpoint, t == "dance": a broadcast that any user may trigger
Dance(ws) ==
    LET r == roomOf[ws]
    IN  /\ InLoop(ws)
        /\ SetRoster(r, broadcast(r, Roster(r), "dance", <<>>))
        /\ last' = [op |-> "dance", ws |-> ws, room |-> r, ok |-> TRUE,
                    role |-> RoleOf(users[r], ws)]
        /\ UNCHANGED <<now, transport, pc, roomOf, rooms, queue, state, client_ips,
                       active_downloads_per_ip, ingests, nextId>>

\* ------------------------------------------------------ playback, queue
Item(id, url, pending, suggested, duration, video_id) ==
    [id |-> id, url |-> url, isPending |-> pending, isSuggested |-> suggested,
     duration |-> duration, video_id |-> video_id]

\* not item.get("isPending") and not item.get("isSuggested") and item.get("url")
Available(t) == ~t.isPending /\ ~t.isSuggested /\ t.url # ""

\* next((i for i, t in enumerate(queue) if t.get("id") == id), -1), 1-based, 0 for -1
IndexOfId(q, id) ==
    LET S == {i \in 1..Len(q) : q[i].id = id}
    IN  IF S = {} THEN 0 ELSE MinOf(S)

\* index of the first available item of the queue, 0 if there is none
FirstAvailable(q) ==
    LET S == {i \in 1..Len(q) : Available(q[i])}
    IN  IF S = {} THEN 0 ELSE MinOf(S)

\* the rotation (current_index + 1 + i) % len, for 1-based indices
Rotate(ci, i, len) == ((ci + i) % len) + 1

NextIndex_First(q, track) == FirstAvailable(q)

\* advance_to_next_track: index of the item it selects, 0 if it selects none
NextIndex(q, track) ==
    IF track = None THEN FirstAvailable(q)
    ELSE LET ci == IndexOfId(q, track[1].id)
         IN  IF ci > 0
             THEN LET S == {i \in 0..(Len(q) - 1) : Available(q[Rotate(ci, i, Len(q))])}
                  IN  IF S = {} THEN 0 ELSE Rotate(ci, MinOf(S), Len(q))
             ELSE FirstAvailable(q)

PreviousIndex_Last(q, track) == Len(q)

\* advance_to_previous_track: index of the item it selects, 0 if none
PreviousIndex(q, track) ==
    LET ci == IndexOfId(q, track[1].id)
    IN  IF ci > 0 THEN ((ci - 2) % Len(q)) + 1 ELSE Len(q)

\* the state after a queue item became the current track
\* (set_first_available_track, advance_to_next_track, advance_to_previous_track)
TrackFromQueue(st, item) ==
    [track |-> Some(item), alias |-> TRUE, duration |-> item.duration,
     position |-> 0, is_playing |-> FALSE, start_time |-> None]

\* a room: roster, queue, state and the envelopes delivered in this step
RoomVal(r) == [users |-> users[r], host |-> host[r], out |-> <<>>,
               queue |-> queue[r], state |-> state[r]]

SetRoom(r, rm) ==
    /\ users' = [users EXCEPT ![r] = rm.users]
    /\ host' = [host EXCEPT ![r] = rm.host]
    /\ queue' = [queue EXCEPT ![r] = rm.queue]
    /\ state' = [state EXCEPT ![r] = rm.state]
    /\ out' = rm.out

\* await room.broadcast(...) on a room value
Bcast(r, rm, type, p) ==
    LET R == broadcast(r, Ros(rm.users, rm.host, rm.out), type, p)
    IN  [rm EXCEPT !.users = R.users, !.host = R.host, !.out = R.out]

\* set_first_available_track
set_first_available_track(r, rm) ==
    IF rm.state.track # None THEN rm
    ELSE LET i == FirstAvailable(rm.queue)
         IN  IF i = 0 THEN rm
             ELSE LET rm1 == [rm EXCEPT !.state = TrackFromQueue(@, rm.queue[i])]
                  IN  Bcast(r, rm1, "set_track",
                            [track |-> rm1.state.track, is_playing |-> FALSE])

\* advance_to_next_track
advance_to_next_track(r, rm) ==
    LET i == NextIndex(rm.queue, rm.state.track)
    IN  IF i = 0 THEN rm
        ELSE LET rm1 == [rm EXCEPT !.state = TrackFromQueue(@, rm.queue[i])]
             IN  Bcast(r, rm1, "next-track", [track |-> rm1.state.track])

\* advance_to_previous_track
advance_to_previous_track(r, rm) ==
    IF rm.state.track = None THEN rm
    ELSE LET i == PreviousIndex(rm.queue, rm.state.track)
         IN  IF i = 0 THEN rm
             ELSE LET rm1 == [rm EXCEPT !.state = TrackFromQueue(@, rm.queue[i])]
                  IN  Bcast(r, rm1, "previous-track", [track |-> rm1.state.track])

\* what a command leaves alone besides the room it acts on
CommandFrame == UNCHANGED <<now, transport, pc, roomOf, rooms, client_ips,
                            active_downloads_per_ip, ingests, nextId>>

Done(ws, op) == [op |-> op, ws |-> ws, room |-> roomOf[ws], ok |-> TRUE,
                 role |-> RoleOf(users[roomOf[ws]], ws)]

play_state_FromNow(st, t) == [st EXCEPT !.is_playing = TRUE, !.start_time = Some(t)]

play_state_KeepStart(st, t) == [st EXCEPT !.is_playing = TRUE]

\* play: the assignments to room.state
play_state(st, t) == [st EXCEPT !.is_playing = TRUE, !.start_time = Some(t - st.position)]

\* what a play step was: the command, the clock reading and the stored
\* position it found; swept tells whether a later sweep advanced the room
PlayDone(ws) ==
    [op |-> "play", ws |-> ws, room |-> roomOf[ws], ok |-> TRUE,
     role |-> RoleOf(users[roomOf[ws]], ws), at |-> now,
     position |-> state[roomOf[ws]].position, swept |-> FALSE]

\* ws_endpoint, t == "play"
Play(ws) ==
    LET r == roomOf[ws]
        rm == [RoomVal(r) EXCEPT !.state = play_state(@, now)]
    IN  /\ InLoop(ws)
        /\ IF ~is_host_or_mod(users[r], ws)
           THEN Refuse(ws, "play", "Only hosts and moderators can control playback")
           ELSE /\ SetRoom(r, Bcast(r, rm, "play", [start_time |-> rm.state.start_time]))
                /\ last' = PlayDone(ws)
                /\ CommandFrame

pause_state_KeepPosition(st, t) == [st EXCEPT !.is_playing = FALSE]

\* pause: the assignments to room.state
pause_state(st, t) ==
    IF st.is_playing
    THEN [st EXCEPT !.position = t - st.start_time[1], !.is_playing = FALSE]
    ELSE st

\* ws_endpoint, t == "pause"
Pause(ws) ==
    LET r == roomOf[ws]
        rm == [RoomVal(r) EXCEPT !.state = pause_state(@, now)]
    IN  /\ InLoop(ws)
        /\ IF ~is_host_or_mod(users[r], ws)
           THEN Refuse(ws, "pause", "Only hosts and moderators can control playback")
           ELSE /\ SetRoom(r, Bcast(r, rm, "pause", [position |-> rm.state.position]))
                /\ last' = Done(ws, "pause")
                /\ CommandFrame

seek_state_KeepStart(st, t, new_pos) == [st EXCEPT !.position = new_pos]

\* seek: the assignments to room.state
seek_state(st, t, new_pos) ==
    IF st.is_playing
    THEN [st EXCEPT !.position = new_pos, !.start_time = Some(t - new_pos)]
    ELSE [st EXCEPT !.position = new_pos]

\* what a seek step was: the command and the position of its payload
SeekDone(ws, new_pos) ==
    [op |-> "seek", ws |-> ws, room |-> roomOf[ws], ok |-> TRUE,
     role |-> RoleOf(users[roomOf[ws]], ws), new_pos |-> new_pos]

\* ws_endpoint, t == "seek"
Seek(ws, new_pos) ==
    LET r == roomOf[ws]
        rm == [RoomVal(r) EXCEPT !.state = seek_state(@, now, new_pos)]
    IN  /\ InLoop(ws)
        /\ IF ~is_host_or_mod(users[r], ws)
           THEN Refuse(ws, "seek", "Only hosts and moderators can control playback")
           ELSE /\ SetRoom(r, Bcast(r, rm, "seek", [position |-> new_pos,
                                                    is_playing |-> rm.state.is_playing]))
                /\ last' = SeekDone(ws, new_pos)
                /\ CommandFrame

\* str(time.time()) used as a track id: distinct from every uuid4
TimeId(t) == 100 + t

\* set_track: the track dict built from the payload; a payload track is
\* either a url string (kind "url") or a track object whose id may be missing
set_track_dict(td, t) ==
    IF td.kind = "url"
    THEN Item(TimeId(t), td.url, FALSE, FALSE, None, "none")
    ELSE Item(IF td.id = None THEN TimeId(t) ELSE td.id[1], td.url, FALSE, FALSE,
              td.duration, "none")

\* set_track: the assignments to room.state
set_track_state(st, td, should_play, t) ==
    [track |-> Some(set_track_dict(td, t)), alias |-> FALSE,
     duration |-> IF td.kind = "url" THEN None ELSE td.duration,
     position |-> 0, is_playing |-> should_play,
     start_time |-> IF should_play THEN Some(t) ELSE None]

\* ws_endpoint, t == "set_track"
SetTrack(ws, td, should_play) ==
    LET r == roomOf[ws]
        rm == [RoomVal(r) EXCEPT !.state = set_track_state(@, td, should_play, now)]
    IN  /\ InLoop(ws)
        /\ IF ~is_host_or_mod(users[r], ws)
           THEN Refuse(ws, "set_track", "Only hosts and moderators can change tracks")
           ELSE /\ SetRoom(r, Bcast(r, rm, "set_track",
                                    [track |-> rm.state.track,
                                     is_playing |-> rm.state.is_playing,
                                     start_time |-> rm.state.start_time]))
                /\ last' = Done(ws, "set_track")
                /\ CommandFrame

\* ws_endpoint, t == "next-track"; done is the record kept of the step
NextTrackAs(ws, done) ==
    LET r == roomOf[ws]
    IN  /\ InLoop(ws)
        /\ IF ~is_host_or_mod(users[r], ws)
           THEN Refuse(ws, "next-track", "Only hosts and moderators can skip tracks")
           ELSE /\ SetRoom(r, advance_to_next_track(r, RoomVal(r)))
                /\ last' = done
                /\ CommandFrame

NextTrack(ws) == NextTrackAs(ws, Done(ws, "next-track"))

\* ws_endpoint, t == "previous-track"
PreviousTrackAs(ws, done) ==
    LET r == roomOf[ws]
    IN  /\ InLoop(ws)
        /\ IF ~is_host_or_mod(users[r], ws)
           THEN Refuse(ws, "previous-track", "Only hosts and moderators can skip tracks")
           ELSE /\ SetRoom(r, advance_to_previous_track(r, RoomVal(r)))
                /\ last' = done
                /\ CommandFrame

PreviousTrack(ws) == PreviousTrackAs(ws, Done(ws, "previous-track"))

\* all orders random.shuffle can leave a list in
Shuffles(q) ==
    LET n == Len(q)
        bij == {f \in [1..n -> 1..n] : \A x, y \in 1..n : f[x] = f[y] => x = y}
    IN  {[k \in 1..n |-> q[f[k]]] : f \in bij}

shuffle_results_All(q, track) == Shuffles(q)

\* shuffle_queue: the queues the command may install
shuffle_results(q, track) ==
    IF track # None
    THEN LET cur == SelectSeq(q, LAMBDA t : t.id = track[1].id)
             other_tracks == SelectSeq(q, LAMBDA t : t.id # track[1].id)
         IN  IF other_tracks # <<>> THEN {cur \o o : o \in Shuffles(other_tracks)} ELSE {q}
    ELSE Shuffles(q)

\* ws_endpoint, t == "shuffle_queue"
ShuffleQueue(ws) ==
    LET r == roomOf[ws]
    IN  /\ InLoop(ws)
        /\ IF ~is_host_or_mod(users[r], ws)
           THEN Refuse(ws, "shuffle_queue", "Only hosts and moderators can shuffle the queue")
           ELSE /\ IF Len(queue[r]) > 1
                   THEN \E q1 \in shuffle_results(queue[r], state[r].track) :
                          SetRoom(r, Bcast(r, [RoomVal(r) EXCEPT !.queue = q1],
                                           "queue_sync", q1))
                   ELSE SetRoom(r, RoomVal(r))
                /\ last' = Done(ws, "shuffle_queue")
                /\ CommandFrame

InsertAt_End(s, i, x) == Append(s, x)

\* list.insert(i - 1, x): s with x inserted so that it becomes element number i
InsertAt(s, i, x) == SubSeq(s, 1, i - 1) \o <<x>> \o SubSeq(s, i, Len(s))

repeated_track_SameId(cur, unique_id) ==
    Item(cur.id, cur.url, FALSE, FALSE, cur.duration, "none")

\* repeat_track: the copy of the current track
repeated_track(cur, unique_id) ==
    Item(unique_id, cur.url, FALSE, FALSE, cur.duration, "none")

\* ws_endpoint, t == "repeat_track"
RepeatTrack(ws) ==
    LET r == roomOf[ws]
        cur == state[r].track
        ci == IndexOfId(queue[r], cur[1].id)
        copy == repeated_track(cur[1], nextId + 1)
        q1 == IF ci > 0 THEN InsertAt(queue[r], ci + 1, copy) ELSE Append(queue[r], copy)
    IN  /\ InLoop(ws)
        /\ IF ~is_host_or_mod(users[r], ws)
           THEN Refuse(ws, "repeat_track", "Only hosts and moderators can repeat tracks")
           ELSE IF cur = None
           THEN Refuse(ws, "repeat_track", "No track currently playing")
           ELSE /\ nextId' = nextId + 1
                /\ SetRoom(r, Bcast(r, [RoomVal(r) EXCEPT !.queue = q1], "queue_sync", q1))
                /\ last' = Done(ws, "repeat_track")
                /\ UNCHANGED <<now, transport, pc, roomOf, rooms, client_ips,
                               active_downloads_per_ip, ingests>>

\* delete_item: is the item to delete the current track (read before the
\* queue_sync broadcast and used after it)
is_current_track(st, item_id) == st.track # None /\ st.track[1].id = item_id

\* ws_endpoint, t == "delete_item", up to the end of the queue_sync
\* broadcast; the rest runs in DeleteResume when the item was the current
\* track, and the handler's item_id is kept until then
DeleteItem(ws, item_id) ==
    LET r == roomOf[ws]
        q1 == SelectSeq(queue[r], LAMBDA t : t.id # item_id)
        suspended == is_host_or_mod(users[r], ws) /\ is_current_track(state[r], item_id)
    IN  /\ InLoop(ws)
        /\ locals' = [locals EXCEPT ![ws] = IF suspended THEN Some([item_id |-> item_id])
                                            ELSE None]
        /\ IF ~is_host_or_mod(users[r], ws)
           THEN Refuse(ws, "delete_item", "Only hosts and moderators can delete items")
           ELSE /\ SetRoom(r, Bcast(r, [RoomVal(r) EXCEPT !.queue = q1], "queue_sync", q1))
                /\ pc' = [pc EXCEPT ![ws] = IF is_current_track(state[r], item_id)
                                            THEN "delete_resume" ELSE "loop"]
                /\ last' = [Done(ws, "delete_item") EXCEPT !.op = "delete_item"]
                /\ UNCHANGED <<now, transport, roomOf, rooms, client_ips,
                               active_downloads_per_ip, ingests, nextId>>

\* the cleared playback state, when no available track is left
cleared_state(st) ==
    [track |-> None, alias |-> FALSE, duration |-> None, position |-> 0,
     is_playing |-> FALSE, start_time |-> None]

delete_item_rest_Clear(r, rm) ==
    Bcast(r, [rm EXCEPT !.state = cleared_state(@)], "set_track",
          [track |-> None, is_playing |-> FALSE])

\* delete_item after the queue_sync broadcast, "if is_current_track:"
delete_item_rest(r, rm) ==
    IF FirstAvailable(rm.queue) > 0
    THEN advance_to_next_track(r, rm)
    ELSE Bcast(r, [rm EXCEPT !.state = cleared_state(@)], "set_track",
               [track |-> None, is_playing |-> FALSE])

\* ws_endpoint, t == "delete_item", resumed after the queue_sync broadcast
DeleteResume(ws) ==
    LET r == roomOf[ws]
    IN  /\ pc[ws] = "delete_resume"
        /\ locals' = [locals EXCEPT ![ws] = None]
        /\ SetRoom(r, delete_item_rest(r, RoomVal(r)))
        /\ pc' = [pc EXCEPT ![ws] = "loop"]
        /\ last' = [op |-> "delete_resume", ws |-> ws, room |-> r, ok |-> TRUE,
                    role |-> RoleOf(users[r], ws)]
        /\ UNCHANGED <<now, transport, roomOf, rooms, client_ips,
                       active_downloads_per_ip, ingests, nextId>>

Swap(q, i, j) == [q EXCEPT ![i] = q[j], ![j] = q[i]]

\* reorder_item: the queue after the move
reorder_queue(q, item_id, direction) ==
    LET ci == IndexOfId(q, item_id)
    IN  IF direction = "up" /\ ci > 1 THEN Swap(q, ci, ci - 1)
        ELSE IF direction = "down" /\ ci < Len(q) THEN Swap(q, ci, ci + 1)
        ELSE q

\* ws_endpoint, t == "reorder_item"
ReorderItem(ws, item_id, direction) ==
    LET r == roomOf[ws]
        q1 == reorder_queue(queue[r], item_id, direction)
    IN  /\ InLoop(ws)
        /\ IF ~is_host_or_mod(users[r], ws)
           THEN Refuse(ws, "reorder_item", "Only hosts and moderators can reorder items")
           ELSE /\ IF IndexOfId(queue[r], item_id) > 0
                   THEN SetRoom(r, Bcast(r, [RoomVal(r) EXCEPT !.queue = q1], "queue_sync", q1))
                   ELSE SetRoom(r, RoomVal(r))
                /\ last' = Done(ws, "reorder_item")
                /\ CommandFrame

\* approve_item: the assignment to the item
approve(t) == [t EXCEPT !.isSuggested = FALSE]

\* quarter seconds: durations and the clock count in units of 0.25 s, so that
\* the 1.25 s buffer is a whole number
Buffer == 5
MinDuration == 4

patch_success_KeepVideoId(t, result) ==
    [t EXCEPT !.url = result.url, !.isPending = FALSE]

\* start_pending_download: the item after a successful download
patch_success(t, result) ==
    [t EXCEPT !.url = result.url,
              !.duration = IF result.duration # None
                           THEN Some(IF result.duration[1] - Buffer > MinDuration
                                     THEN result.duration[1] - Buffer
                                     ELSE MinDuration)
                           ELSE @,
              !.isPending = FALSE,
              !.video_id = "none"]

patch_failure_Pending(t) == [t EXCEPT !.url = ""]

\* start_pending_download: the item after a failed or timed out download
patch_failure(t) == [t EXCEPT !.isPending = FALSE, !.url = ""]

\* the three in-place patches of a queue item
Patched(t, how, result) ==
    CASE how = "approve" -> approve(t)
      [] how = "completed" -> patch_success(t, result)
      [] OTHER -> patch_failure(t)

\* an assignment to keys of the queue item with the given id, in place: the
\* first item with that id changes, and so does state["track"] when it is
\* that very dict
PatchItem(rm, item_id, how, result) ==
    LET ci == IndexOfId(rm.queue, item_id)
    IN  IF ci = 0 THEN rm
        ELSE [rm EXCEPT !.queue[ci] = Patched(@, how, result),
                        !.state.track = IF rm.state.alias /\ @ # None /\ @[1].id = item_id
                                        THEN Some(Patched(@[1], how, result)) ELSE @]

\* ws_endpoint, t == "approve_item"
ApproveItem(ws, item_id) ==
    LET r == roomOf[ws]
        rm == PatchItem(RoomVal(r), item_id, "approve", None)
    IN  /\ InLoop(ws)
        /\ IF ~is_host_or_mod(users[r], ws)
           THEN Refuse(ws, "approve_item", "Only hosts and moderators can approve items")
           ELSE /\ SetRoom(r, Bcast(r, rm, "queue_sync", rm.queue))
                /\ last' = Done(ws, "approve_item")
                /\ CommandFrame

\* add_to_queue: the queue item built from the payload
queue_item(item_data, unique_id) ==
    Item(unique_id, item_data.url, FALSE, item_data.isSuggested, item_data.duration,
         item_data.id)

\* the payloads of add_to_queue
AddInputs == [url : Urls \cup {""}, isSuggested : BOOLEAN, duration : {None, Some(1)},
              id : VideoIds]

\* ws_endpoint, t == "add_to_queue"
AddToQueue(ws, item_data) ==
    LET r == roomOf[ws]
        it == queue_item(item_data, nextId + 1)
        rm1 == [RoomVal(r) EXCEPT !.queue = Append(@, it)]
        rm2 == Bcast(r, rm1, "queue_sync", rm1.queue)
        rm3 == IF Available(it) THEN set_first_available_track(r, rm2) ELSE rm2
    IN  /\ InLoop(ws)
        /\ IF ~is_host_or_mod(users[r], ws)
           THEN Refuse(ws, "add_to_queue", "Only hosts and moderators can add items to queue")
           ELSE /\ nextId' = nextId + 1
                /\ SetRoom(r, rm3)
                /\ last' = Done(ws, "add_to_queue")
                /\ UNCHANGED <<now, transport, pc, roomOf, rooms, client_ips,
                               active_downloads_per_ip, ingests>>

\* ------------------------------------------------------------------ ingest
\* add_pending_download: the pending queue item built from the payload
pending_item(item_data, unique_id) ==
    Item(unique_id, "", TRUE, FALSE, item_data.duration, item_data.video_id)

\* the payloads of add_pending_download
PendingInputs == [duration : {None}, video_id : VideoIds]

\* the payloads of add_pending_download, those whose item has no "video_id"
\* key included: item_data.get("video_id") is then None
PendingPayloads == [duration : {None}, video_id : VideoIds \cup {"none"}]

\* add_pending_download: "if client_ip in active_downloads_per_ip"
HasActiveDownload(client_ip) == client_ip \in DOMAIN active_downloads_per_ip

\* ws_endpoint, t == "add_pending_download"; the ingest is a new task
\* (asyncio.create_task) that starts to run in a later step
AddPendingDownload(ws, item_data) ==
    LET r == roomOf[ws]
        client_ip == IF ws \in DOMAIN client_ips THEN client_ips[ws] ELSE "unknown"
        it == pending_item(item_data, nextId + 1)
        rm1 == [RoomVal(r) EXCEPT !.queue = Append(@, it)]
    IN  /\ InLoop(ws)
        /\ IF ~is_host_or_mod(users[r], ws)
           THEN Refuse(ws, "add_pending_download", "Only hosts and moderators can add downloads")
           ELSE IF HasActiveDownload(client_ip)
           THEN Refuse(ws, "add_pending_download", "You already have a download in progress.")
           ELSE /\ nextId' = nextId + 1
                /\ SetRoom(r, Bcast(r, rm1, "queue_sync", rm1.queue))
                /\ ingests' = ingests \cup {[room |-> r, queue_item_id |-> it.id,
                                             client_ip |-> client_ip,
                                             video_id |-> item_data.video_id,
                                             pc |-> "created"]}
                /\ last' = Done(ws, "add_pending_download")
                /\ UNCHANGED <<now, transport, pc, roomOf, rooms, client_ips,
                               active_downloads_per_ip>>

\* start_pending_download up to the wait for the download: mark the address,
\* ensure_workers_started, add_task, then await task.future
IngestStart(t) ==
    /\ t \in ingests
    /\ t.pc = "created"
    /\ active_downloads_per_ip' = DictSet(active_downloads_per_ip, t.client_ip, t.queue_item_id)
    /\ ingests' = (ingests \ {t}) \cup {[t EXCEPT !.pc = "waiting"]}
    /\ out' = <<>>
    /\ last' = [op |-> "ingest_start", room |-> t.room, item |-> t.queue_item_id,
                client_ip |-> t.client_ip]
    /\ UNCHANGED <<now, transport, pc, roomOf, rooms, users, host, queue, state, client_ips, nextId>>

\* the results a completed download task can carry
Results == [url : Urls, duration : {None, Some(6), Some(12)}]

\* start_pending_download after the wait: the room after the item was
\* patched and the queue broadcast; outcome is "completed", "failed" (the
\* future raised) or "timeout" (wait_for gave up after 600 s)
ingest_done(r, rm, queue_item_id, outcome, result) ==
    IF outcome = "completed"
    THEN LET rm1 == PatchItem(rm, queue_item_id, "completed", result)
             rm2 == Bcast(r, rm1, "queue_sync", rm1.queue)
         IN  IF rm2.state.track = None THEN set_first_available_track(r, rm2) ELSE rm2
    ELSE LET rm1 == PatchItem(rm, queue_item_id, outcome, result)
         IN  Bcast(r, rm1, "queue_sync", rm1.queue)

\* start_pending_download from the end of the wait to its end, "finally"
\* included: the address is released
IngestFinish(t, outcome, result) ==
    /\ t \in ingests
    /\ t.pc = "waiting"
    /\ SetRoom(t.room, ingest_done(t.room, RoomVal(t.room), t.queue_item_id, outcome, result))
    /\ active_downloads_per_ip' = DictDel(active_downloads_per_ip, t.client_ip)
    /\ ingests' = ingests \ {t}
    /\ last' = [op |-> "ingest_finish", room |-> t.room, item |-> t.queue_item_id,
                client_ip |-> t.client_ip, outcome |-> outcome]
    /\ UNCHANGED <<now, transport, pc, roomOf, rooms, client_ips, nextId>>

\* ------------------------------------------------------------------ ticker
track_ended_Late(st, t) ==
    /\ st.is_playing
    /\ st.start_time # None
    /\ st.duration # None
    /\ t - st.start_time[1] > st.duration[1]

\* check_track_end: the test made for every room
track_ended(st, t) ==
    /\ st.is_playing
    /\ st.start_time # None
    /\ st.duration # None
    /\ t - st.start_time[1] >= st.duration[1]

sweep_room_Always(r, rm) == advance_to_next_track(r, rm)

\* check_track_end: what one sweep does to one room
sweep_room(r, rm) == IF track_ended(rm.state, now) THEN advance_to_next_track(r, rm) ELSE rm

\* the registry in the order of list(rooms.values())
RoomOrder == <<"r1", "r2">>

RECURSIVE SweepOut(_)
SweepOut(i) ==
    IF i > Len(RoomOrder) THEN <<>>
    ELSE sweep_room(RoomOrder[i], RoomVal(RoomOrder[i])).out \o SweepOut(i + 1)

\* check_track_end: what one sweep over all rooms does to the rooms
Sweep ==
    /\ users' = [r \in Rooms |-> sweep_room(r, RoomVal(r)).users]
    /\ host' = [r \in Rooms |-> sweep_room(r, RoomVal(r)).host]
    /\ queue' = [r \in Rooms |-> sweep_room(r, RoomVal(r)).queue]
    /\ state' = [r \in Rooms |-> sweep_room(r, RoomVal(r)).state]
    /\ out' = SweepOut(1)
    /\ UNCHANGED <<now, transport, pc, roomOf, rooms, client_ips,
                   active_downloads_per_ip, ingests, nextId>>

\* check_track_end: one sweep over all rooms
Ticker ==
    /\ Sweep
    /\ last' = [op |-> "ticker", ended |-> {r \in Rooms : track_ended(state[r], now)}]

\* the wall clock advances
Tick ==
    /\ now' = now + 1
    /\ out' = <<>>
    /\ last' = [op |-> "tick"]
    /\ UNCHANGED <<transport, pc, roomOf, rooms, users, host, queue, state, client_ips,
                   active_downloads_per_ip, ingests, nextId>>

\* ----------------------------------------------- specification: playback
\* a room of three users in their command loops: "a" is host, "b" was made
\* moderator by "a", "c" is a listener
InitPlayback ==
    /\ InitCommon
    /\ transport = [ws \in Conns |-> "ok"]
    /\ pc = [ws \in Conns |-> "loop"]
    /\ roomOf = [ws \in Conns |-> "r1"]
    /\ rooms = [r \in Rooms |-> 1]
    /\ users = [r \in Rooms |-> IF r = "r1"
                                THEN << [ws |-> "a", role |-> "host"],
                                        [ws |-> "b", role |-> "moderator"],
                                        [ws |-> "c", role |-> "listener"] >>
                                ELSE <<>>]
    /\ host = [r \in Rooms |-> IF r = "r1" THEN "a" ELSE "none"]
    /\ client_ips = [ws \in Conns |-> IpOf(ws)]

\* the tracks a client may put into set_track: a url, or a track object that
\* carries the id of a queue item, an id of its own (99) or no id
SetTrackInputs(ids) ==
    [kind : {"url"}, url : Urls, id : {None}, duration : {None}]
    \cup [kind : {"object"}, url : Urls, id : {None, Some(99)} \cup {Some(i) : i \in ids},
          duration : {None, Some(1)}]

\* the inputs of the playback specification: a url, and the first queue item
\* as a track object
PlaybackTracks ==
    {td \in SetTrackInputs({1}) : td.kind = "object" => (td.id = Some(1) /\ td.duration = Some(1))}

PlaybackItems == {it \in AddInputs : ~it.isSuggested /\ it.duration = Some(1) /\ it.url # ""}

PlaybackResults == {res \in Results : res.duration = Some(6)}

\* the positions a client may put into seek: the protocol takes any number
SeekInputs == {-1, 1}

\* commands of the host "a", the ticker and the clock
NextPlayback ==
    \/ DownloadIdle /\ Play("a")
    \/ DownloadIdle /\ Pause("a")
    \/ DownloadIdle /\ \E new_pos \in SeekInputs : Seek("a", new_pos)
    \/ DownloadIdle /\ \E td \in PlaybackTracks, sp \in BOOLEAN : SetTrack("a", td, sp)
    \/ DownloadIdle /\ NextTrack("a")
    \/ DownloadIdle /\ PreviousTrack("a")
    \/ ApiIdle /\ \E id \in 1..MaxIds : DeleteItem("a", id)
    \/ ApiIdle /\ DeleteResume("a")
    \/ DownloadIdle /\ nextId < MaxIds /\ \E item \in PlaybackItems : AddToQueue("a", item)
    \/ DownloadIdle /\ nextId < MaxIds /\ \E item \in PendingInputs : AddPendingDownload("a", item)
    \/ DownloadIdle /\ \E t \in ingests : IngestStart(t)
    \/ DownloadIdle /\ \E t \in ingests, o \in {"completed", "failed"}, res \in PlaybackResults :
          IngestFinish(t, o, res)
    \/ DownloadIdle /\ Ticker
    \/ DownloadIdle /\ now < MaxTime /\ Tick

SpecPlayback == InitPlayback /\ [][NextPlayback]_vars

\* ------------------------------------------------- specification: ticker
TickerItems == {it \in AddInputs : it.duration = Some(1) /\ (it.isSuggested => it.url # "")}

\* the host fills the queue and starts tracks; the ticker sweeps
NextTicker ==
    \/ DownloadIdle /\ Play("a")
    \/ DownloadIdle /\ Pause("a")
    \/ DownloadIdle /\ \E td \in PlaybackTracks, sp \in BOOLEAN : SetTrack("a", td, sp)
    \/ DownloadIdle /\ NextTrack("a")
    \/ DownloadIdle /\ nextId < MaxTickerIds /\ \E item \in TickerItems : AddToQueue("a", item)
    \/ DownloadIdle /\ Ticker
    \/ DownloadIdle /\ now < MaxTime /\ Tick

SpecTicker == InitPlayback /\ [][NextTicker]_vars

\* -------------------------------------------------- specification: queue
QueueItems == {it \in AddInputs : it.duration = Some(1) /\ it.url # ""}

\* every command that edits the queue, sent by the host
NextQueue ==
    \/ DownloadIdle /\ nextId < MaxQueueIds /\ \E item \in QueueItems : AddToQueue("a", item)
    \/ DownloadIdle /\ nextId < MaxQueueIds /\ \E item \in PendingInputs : AddPendingDownload("a", item)
    \/ DownloadIdle /\ \E t \in ingests : IngestStart(t)
    \/ DownloadIdle /\ \E t \in ingests, o \in {"completed", "failed", "timeout"}, res \in PlaybackResults :
          IngestFinish(t, o, res)
    \/ DownloadIdle /\ nextId < MaxQueueIds /\ RepeatTrack("a")
    \/ DownloadIdle /\ ShuffleQueue("a")
    \/ DownloadIdle /\ \E id \in 1..MaxQueueIds, d \in {"up", "down"} : ReorderItem("a", id, d)
    \/ ApiIdle /\ \E id \in 1..MaxQueueIds : DeleteItem("a", id)
    \/ ApiIdle /\ DeleteResume("a")
    \/ DownloadIdle /\ \E id \in 1..MaxQueueIds : ApproveItem("a", id)
    \/ DownloadIdle /\ NextTrack("a")

SpecQueue == InitPlayback /\ [][NextQueue]_vars

\* the event loop runs every ingest task it created, and every wait of an
\* ingest ends: the worker resolves the future, or wait_for gives up after
\* 600 s. Weak fairness of IngestStart and of IngestFinish, the latter
\* written out as for SpecIngestFair.
SpecQueueFair ==
    /\ SpecQueue
    /\ WF_vars(DownloadIdle /\ \E t \in ingests : IngestStart(t))
    /\ \/ []<>(~\E t \in ingests : t.pc = "waiting")
       \/ []<><<ingests' # ingests /\ ingests' \subseteq ingests>>_vars

\* -------------------------------------------- specification: queue order
\* a next-track step, with the track it started from and whether the queue
\* held that track
NextTrackFrom(ws) ==
    NextTrackAs(ws, [op |-> "next-track", ws |-> ws, room |-> roomOf[ws], ok |-> TRUE,
                     role |-> RoleOf(users[roomOf[ws]], ws),
                     from |-> state[roomOf[ws]].track,
                     queued |-> /\ state[roomOf[ws]].track # None
                                /\ IndexOfId(queue[roomOf[ws]],
                                             state[roomOf[ws]].track[1].id) > 0])

\* a previous-track step; when the step before it was a next-track step that
\* started from a queued track: that track, and whether the item after it in
\* the queue (wrapping around) is available
PreviousTrackAfter(ws) ==
    LET r == roomOf[ws]
        after == last.op = "next-track" /\ last.ok /\ last.room = r /\ last.queued
        ci == IndexOfId(queue[r], last.from[1].id)
    IN  PreviousTrackAs(ws, [op |-> "previous-track", ws |-> ws, room |-> r, ok |-> TRUE,
                             role |-> RoleOf(users[r], ws),
                             start |-> IF after THEN last.from ELSE None,
                             follower_available |->
                                 after /\ Available(queue[r][Rotate(ci, 0, Len(queue[r]))])])

\* the host "a" adds available and suggested items, repeats, shuffles and skips
NextOrder ==
    \/ DownloadIdle /\ nextId < MaxOrderIds /\ \E item \in QueueItems : AddToQueue("a", item)
    \/ DownloadIdle /\ nextId < MaxOrderIds /\ RepeatTrack("a")
    \/ DownloadIdle /\ ShuffleQueue("a")
    \/ DownloadIdle /\ NextTrackFrom("a")
    \/ DownloadIdle /\ PreviousTrackAfter("a")

SpecOrder == InitPlayback /\ [][NextOrder]_vars

\* ------------------------------------------------ specification: skipping
\* the items of add_to_queue: suggested or not, with or without a url
SkipItems == {it \in AddInputs : it.duration = Some(1)}

\* the host fills the queue with items of every kind, pending ones included,
\* sets tracks, plays and skips; the ticker sweeps
NextSkip ==
    \/ DownloadIdle /\ nextId < MaxSkipIds /\ \E item \in SkipItems : AddToQueue("a", item)
    \/ DownloadIdle /\ nextId < MaxSkipIds /\ \E item \in PendingInputs : AddPendingDownload("a", item)
    \/ DownloadIdle /\ \E td \in PlaybackTracks, sp \in BOOLEAN : SetTrack("a", td, sp)
    \/ DownloadIdle /\ Play("a")
    \/ DownloadIdle /\ NextTrack("a")
    \/ DownloadIdle /\ Ticker
    \/ DownloadIdle /\ now < MaxTime /\ Tick

SpecSkip == InitPlayback /\ [][NextSkip]_vars

\* ------------------------------------------------ specification: deleting
\* host and moderator fill the queue, start tracks, skip and delete; a
\* delete_item of the current track is resumed after its queue_sync broadcast
NextDelete ==
    \/ DownloadIdle /\ nextId < MaxDeleteIds /\ \E item \in QueueItems : AddToQueue("a", item)
    \/ DownloadIdle /\ nextId < MaxDeleteIds /\ \E item \in PendingInputs : AddPendingDownload("a", item)
    \/ DownloadIdle /\ \E td \in PlaybackTracks, sp \in BOOLEAN : SetTrack("a", td, sp)
    \/ DownloadIdle /\ \E ws \in {"a", "b"} : Play(ws)
    \/ DownloadIdle /\ \E ws \in {"a", "b"} : NextTrack(ws)
    \/ ApiIdle /\ \E ws \in {"a", "b"}, id \in 1..MaxDeleteIds : DeleteItem(ws, id)
    \/ ApiIdle /\ \E ws \in {"a", "b"} : DeleteResume(ws)

SpecDelete == InitPlayback /\ [][NextDelete]_vars

\* ------------------------------------------------------ download queue
\* f"yt-{task.video_id}.mp3"
supabase_filename(video_id) == <<"yt-", video_id, ".mp3">>

\* the public url of a blob: the bucket's (or the Cloudflare domain's) prefix
\* and the blob key
final_url(filename) == <<"bucket/">> \o filename

exists_result_OwnUrl(video_id) ==
    [video_id |-> video_id, filename |-> supabase_filename(video_id),
     url |-> <<"bucket/", video_id>>, message |-> "File already exists in storage"]

\* _process_download: what it returns when the blob is already stored
exists_result(video_id) ==
    [video_id |-> video_id, filename |-> supabase_filename(video_id),
     url |-> final_url(supabase_filename(video_id)),
     message |-> "File already exists in storage"]

\* _process_download: what it returns after extract and upload
upload_result(video_id) ==
    [video_id |-> video_id, filename |-> supabase_filename(video_id),
     url |-> final_url(supabase_filename(video_id)), message |-> ""]

\* f"{video_id}-{int(time.time() * 1000)}" when the clock reads t
task_id_of(video_id, t) == <<video_id, "-", t>>

\* a DownloadTask as add_task creates it; future is the state of its
\* asyncio.Future: "pending", "result", "exception" or "cancelled"
DownloadTask(video_id, task_id) ==
    [video_id |-> video_id, task_id |-> task_id, status |-> "pending", result |-> None,
     error |-> None, future |-> "pending"]

\* ensure_workers_started, start_workers
start_workers(dq) ==
    IF dq._running THEN dq
    ELSE [dq EXCEPT !._running = TRUE,
                    !.workers = [w \in 1..max_workers |->
                                   [pc |-> "get", task |-> 0, ret |-> None, file_exists |-> None]]]

\* add_task when the clock reads t. tasks holds the task objects in creation
\* order; task_ids is the dict self.tasks, from task_id to the object stored
\* under it, and a second task under the same task_id replaces the first
add_task(dq, video_id, t) ==
    [dq EXCEPT !.tasks = Append(@, DownloadTask(video_id, task_id_of(video_id, t))),
               !.task_ids = DictSet(@, task_id_of(video_id, t), Len(dq.tasks) + 1),
               !.queue = Append(@, Len(dq.tasks) + 1)]

\* a caller (start_pending_download, download_youtube) submits a download
Submit(video_id) ==
    /\ Len(download_queue.tasks) < MaxTasks
    /\ download_queue' = add_task(start_workers(download_queue), video_id, now)
    /\ UNCHANGED <<storage, rate_limiter, room_vars>>

worker_free_Always(dq, w) == TRUE

\* _worker: it waits on queue.get and the semaphore has a permit
worker_free(dq, w) == dq.workers[w].pc = "get" /\ dq.worker_semaphore > 0

\* _worker: queue.get, semaphore acquire, status "processing", thread started
WorkerTake(w) ==
    LET dq == download_queue
    IN  /\ dq.queue # <<>>
        /\ worker_free(dq, w)
        /\ download_queue' =
              [dq EXCEPT !.queue = Tail(@),
                         !.worker_semaphore = @ - 1,
                         !.tasks[Head(dq.queue)].status = "processing",
                         !.workers[w] = [pc |-> "check", task |-> Head(dq.queue),
                                         ret |-> None, file_exists |-> None]]
        /\ UNCHANGED <<storage, rate_limiter, room_vars>>

\* _process_download in its thread: the exists check. file_exists is the
\* local variable of that name: unset when exists() raised. With the blob
\* stored, the worker returns the stored blob's result, unless info(),
\* get_public_url() or the metadata lookup raised: "except Exception: pass"
\* then goes on to the download, as it does when the blob is absent
ThreadExists(w) ==
    LET dq == download_queue
        v == dq.tasks[dq.workers[w].task].video_id
    IN  /\ dq.workers[w].pc = "check"
        /\ \/ /\ supabase_filename(v) \in storage
              /\ download_queue' = [dq EXCEPT !.workers[w].pc = "returned",
                                              !.workers[w].file_exists = Some(TRUE),
                                              !.workers[w].ret = Some(exists_result(v))]
           \/ /\ supabase_filename(v) \in storage
              /\ download_queue' = [dq EXCEPT !.workers[w].pc = "download",
                                              !.workers[w].file_exists = Some(TRUE)]
           \/ /\ supabase_filename(v) \notin storage
              /\ download_queue' = [dq EXCEPT !.workers[w].pc = "download",
                                              !.workers[w].file_exists = Some(FALSE)]
           \/ download_queue' = [dq EXCEPT !.workers[w].pc = "download"]
        /\ UNCHANGED <<storage, rate_limiter, room_vars>>

\* _process_download in its thread: extract and upload (upsert), or raise
ThreadDownload(w) ==
    LET dq == download_queue
        v == dq.tasks[dq.workers[w].task].video_id
    IN  /\ dq.workers[w].pc = "download"
        /\ \/ /\ storage' = storage \cup {supabase_filename(v)}
              /\ download_queue' = [dq EXCEPT !.workers[w].pc = "returned",
                                              !.workers[w].ret = Some(upload_result(v))]
           \/ /\ storage' = storage
              /\ download_queue' = [dq EXCEPT !.workers[w].pc = "raised",
                                              !.workers[w].ret = Some("Download failed")]
        /\ UNCHANGED <<rate_limiter, room_vars>>

\* the worker back at queue.get, its permit released
worker_idle(dq, w) ==
    [dq EXCEPT !.workers[w] = [pc |-> "get", task |-> 0, ret |-> None, file_exists |-> None],
               !.worker_semaphore = @ + 1]

\* _worker: task.result, status "completed", future.set_result; set_result
\* raises InvalidStateError when the future was cancelled
WorkerStore(w) ==
    LET dq == download_queue
        t == dq.workers[w].task
        dq1 == [dq EXCEPT !.tasks[t].result = dq.workers[w].ret,
                          !.tasks[t].status = "completed"]
    IN  /\ dq.workers[w].pc = "returned"
        /\ download_queue' =
              IF dq.tasks[t].future = "pending"
              THEN worker_idle([dq1 EXCEPT !.tasks[t].future = "result"], w)
              ELSE [dq1 EXCEPT !.workers[w].pc = "raised",
                               !.workers[w].ret = Some("invalid state")]
        /\ UNCHANGED <<storage, rate_limiter, room_vars>>

\* _worker, except Exception: task.error, status "failed",
\* future.set_exception (which raises again on a cancelled future, into the
\* outer handler), queue.task_done
WorkerExcept(w) ==
    LET dq == download_queue
        t == dq.workers[w].task
    IN  /\ dq.workers[w].pc = "raised"
        /\ download_queue' =
              worker_idle([dq EXCEPT !.tasks[t].error = dq.workers[w].ret,
                                     !.tasks[t].status = "failed",
                                     !.tasks[t].future =
                                         IF @ = "pending" THEN "exception" ELSE @], w)
        /\ UNCHANGED <<storage, rate_limiter, room_vars>>

\* asyncio.wait_for(task.future, timeout=600.0) gives up: it cancels the
\* future it waited for
Expire(t) ==
    /\ t \in 1..Len(download_queue.tasks)
    /\ download_queue.tasks[t].future = "pending"
    /\ download_queue' = [download_queue EXCEPT !.tasks[t].future = "cancelled"]
    /\ UNCHANGED <<storage, rate_limiter, room_vars>>

\* ------------------------------------------- specification: downloads
DownloadVideoIds == {"v1", "v2"}

NextDownload ==
    \/ \E video_id \in DownloadVideoIds : Submit(video_id)
    \/ \E w \in 1..max_workers : WorkerTake(w)
    \/ \E w \in 1..max_workers : ThreadExists(w)
    \/ \E w \in 1..max_workers : ThreadDownload(w)
    \/ \E w \in 1..max_workers : WorkerStore(w)
    \/ \E w \in 1..max_workers : WorkerExcept(w)
    \/ \E t \in 1..MaxTasks : Expire(t)

SpecDownload == InitPlayback /\ [][NextDownload]_vars

\* ------------------------------------------ specification: authorization
\* the listener "c" sends every command; the host "a" changes the room
NextAuth ==
    \/ DownloadIdle /\ \E ws \in {"a", "c"} : Play(ws)
    \/ DownloadIdle /\ \E ws \in {"a", "c"} : Pause(ws)
    \/ DownloadIdle /\ Seek("c", 1)
    \/ DownloadIdle /\ \E td \in PlaybackTracks : SetTrack("c", td, TRUE)
    \/ DownloadIdle /\ NextTrack("c")
    \/ DownloadIdle /\ PreviousTrack("c")
    \/ DownloadIdle /\ ShuffleQueue("c")
    \/ DownloadIdle /\ nextId <= MaxAuthIds /\ RepeatTrack("c")
    \/ ApiIdle /\ DeleteItem("c", 1)
    \/ DownloadIdle /\ \E d \in {"up", "down"} : ReorderItem("c", 1, d)
    \/ DownloadIdle /\ ApproveItem("c", 1)
    \/ DownloadIdle /\ \E ws \in {"a", "c"} :
          (IF ws = "a" THEN nextId < MaxAuthIds ELSE nextId <= MaxAuthIds)
          /\ \E item \in PlaybackItems : AddToQueue(ws, item)
    \/ DownloadIdle /\ nextId <= MaxAuthIds /\ \E item \in PendingInputs : AddPendingDownload("c", item)
    \/ DownloadIdle /\ now < MaxTime /\ Tick

SpecAuth == InitPlayback /\ [][NextAuth]_vars

\* -------------------------------------------------- specification: ingest
\* "a" is host of r1; "b", who shares the address of "a", is moderator of r1
\* or, having opened r2, host of r2
InitIngest ==
    /\ InitCommon
    /\ transport = [ws \in Conns |-> "ok"]
    /\ pc = [ws \in Conns |-> "loop"]
    /\ rooms = [r \in Rooms |-> 1]
    /\ \E rb \in Rooms :
          /\ roomOf = [ws \in Conns |-> IF ws = "b" THEN rb ELSE "r1"]
          /\ users = [r \in Rooms |->
                        SelectSeq(<< [ws |-> "a", role |-> "host"],
                                     [ws |-> "b", role |-> IF rb = "r1" THEN "moderator"
                                                           ELSE "host"],
                                     [ws |-> "c", role |-> "listener"] >>,
                                  LAMBDA u : r = (IF u.ws = "b" THEN rb ELSE "r1"))]
          /\ host = [r \in Rooms |-> IF r = "r1" THEN "a" ELSE IF rb = "r2" THEN "b" ELSE "none"]
    /\ client_ips = [ws \in Conns |-> IpOf(ws)]

NextIngest ==
    \/ DownloadIdle /\ \E ws \in {"a", "b"} :
          nextId < MaxIngestIds /\ \E item \in PendingPayloads : AddPendingDownload(ws, item)
    \/ DownloadIdle /\ \E t \in ingests : IngestStart(t)
    \/ DownloadIdle /\ \E t \in ingests, o \in {"completed", "failed", "timeout"}, res \in PlaybackResults :
          IngestFinish(t, o, res)

SpecIngest == InitIngest /\ [][NextIngest]_vars

\* the event loop runs every task it created, and wait_for ends every wait
\* after 600 s at the latest: weak fairness of IngestStart and of
\* IngestFinish. The latter is written out: IngestFinish is enabled exactly
\* when an ingest waits, and its steps are the steps that take an ingest out
\* of the set.
SpecIngestFair ==
    /\ SpecIngest
    /\ WF_vars(DownloadIdle /\ \E t \in ingests : IngestStart(t))
    /\ \/ []<>(~\E t \in ingests : t.pc = "waiting")
       \/ []<><<ingests' # ingests /\ ingests' \subseteq ingests>>_vars

\* -------------------------------------------------- specification: state
get_state_NoRefresh(st, t) == st

\* get_state: the recomputation of position before the state is sent
get_state_refresh(st, t) ==
    IF st.is_playing /\ st.start_time # None
    THEN [st EXCEPT !.position = t - st.start_time[1]]
    ELSE st

\* ws_endpoint, t == "get_state": any user of the room may send it
GetState(ws) ==
    LET r == roomOf[ws]
        st == get_state_refresh(state[r], now)
    IN  /\ InLoop(ws)
        /\ state' = [state EXCEPT ![r] = st]
        /\ out' = << Msg(ws, r, "state_sync", st) >>
        /\ last' = Done(ws, "get_state")
        /\ UNCHANGED <<now, transport, pc, roomOf, rooms, users, host, queue, client_ips,
                       active_downloads_per_ip, ingests, nextId>>

\* the host plays, pauses and seeks; every user asks for the state
NextState ==
    \/ DownloadIdle /\ Play("a")
    \/ DownloadIdle /\ Pause("a")
    \/ DownloadIdle /\ \E new_pos \in SeekInputs : Seek("a", new_pos)
    \/ DownloadIdle /\ \E sp \in BOOLEAN : \E td \in PlaybackTracks : SetTrack("a", td, sp)
    \/ DownloadIdle /\ nextId < MaxStateIds /\ \E item \in PlaybackItems : AddToQueue("a", item)
    \/ DownloadIdle /\ \E ws \in Conns : GetState(ws)
    \/ DownloadIdle /\ now < MaxTime /\ Tick

SpecState == InitPlayback /\ [][NextState]_vars

\* ------------------------------------------------- specification: resume
\* the wall clock advances between two commands; last keeps the last command
Elapse ==
    /\ now' = now + 1
    /\ UNCHANGED <<transport, pc, roomOf, rooms, users, host, queue, state, client_ips,
                   active_downloads_per_ip, ingests, nextId, out, last>>

\* a sweep of check_track_end between two commands; last keeps the last
\* command and notes whether the sweep changed the room that command was for
SweepBetween ==
    /\ Sweep
    /\ last' = IF last.op = "play" /\ last.ok /\ state'[last.room] # state[last.room]
               THEN [last EXCEPT !.swept = TRUE]
               ELSE last

\* the host and the moderator play, pause and seek, the host fills the queue,
\* time passes and the ticker sweeps
NextResume ==
    \/ DownloadIdle /\ \E ws \in {"a", "b"} : Play(ws)
    \/ DownloadIdle /\ \E ws \in {"a", "b"} : Pause(ws)
    \/ DownloadIdle /\ \E new_pos \in SeekInputs : Seek("a", new_pos)
    \/ DownloadIdle /\ nextId < MaxResumeIds /\ \E item \in PlaybackItems : AddToQueue("a", item)
    \/ DownloadIdle /\ now < MaxTime /\ Elapse
    \/ DownloadIdle /\ SweepBetween

SpecResume == InitPlayback /\ [][NextResume]_vars

\* ------------------------------------------------- specification: roster
NextRoster ==
    \/ DownloadIdle /\ \E ws \in Conns : \E r \in SlugsOf(ws) : Join(ws, r)
    \/ DownloadIdle /\ \E ws \in Conns : JoinBroadcast(ws)
    \/ DownloadIdle /\ \E ws \in Conns : JoinTrio(ws)
    \/ DownloadIdle /\ \E ws \in Conns : Leave(ws)
    \/ DownloadIdle /\ \E ws \in Conns : Break(ws)
    \/ DownloadIdle /\ \E ws \in Conns : Close(ws)
    \/ DownloadIdle /\ \E ws \in Conns : Dance(ws)
    \/ DownloadIdle /\ \E ws \in Conns, ip \in Ips \cup {"none"}, port \in Conns \cup {"none"},
          m \in BOOLEAN : SetModerator(ws, ip, port, m)

SpecRoster == InitRoster /\ [][NextRoster]_vars

\* ----------------------------------------------- specification: registry
\* sessions come and go while the queue of their room is filled and ingests
\* end in every way
NextRegistry ==
    \/ DownloadIdle /\ \E ws \in Conns : \E r \in SlugsOf(ws) : Join(ws, r)
    \/ DownloadIdle /\ \E ws \in Conns : JoinBroadcast(ws)
    \/ DownloadIdle /\ \E ws \in Conns : JoinTrio(ws)
    \/ DownloadIdle /\ \E ws \in Conns : Leave(ws)
    \/ DownloadIdle /\ \E ws \in Conns : Break(ws)
    \/ DownloadIdle /\ nextId < MaxRegistryIds
          /\ \E ws \in {"a", "b"}, item \in PlaybackItems : AddToQueue(ws, item)
    \/ DownloadIdle /\ nextId < MaxRegistryIds
          /\ \E ws \in {"a", "b"}, item \in PendingInputs : AddPendingDownload(ws, item)
    \/ DownloadIdle /\ \E t \in ingests : IngestStart(t)
    \/ DownloadIdle /\ \E t \in ingests, o \in {"completed", "failed", "timeout"},
          res \in PlaybackResults : IngestFinish(t, o, res)

SpecRegistry == InitRoster /\ [][NextRegistry]_vars

\* --------------------------------------------- specification: rate limiter
\* what the callers of the limiter have seen so far: per identifier the times
\* of its admissions and its last call
NoCalls == [i \in Identities |-> [granted |-> <<>>, call |-> [op |-> "none"]]]
Calls == IF "calls" \in DOMAIN last THEN last.calls ELSE NoCalls

\* a call of rate_limiter.is_allowed(identifier); waited tells that the
\* identifier was denied, asked get_retry_after, was told to wait for told
\* seconds and calls again when they have passed
IsAllowed(identifier) ==
    LET res == is_allowed(rate_limiter, identifier, now)
        c == Calls[identifier]
        waited == /\ c.call.op = "get_retry_after"
                  /\ c.call.denied_at # None
                  /\ now = c.call.at + c.call.r
    IN  /\ rate_limiter' = res.rl
        /\ out' = <<>>
        /\ last' = [op |-> "is_allowed", identifier |-> identifier, ok |-> res.ok,
                    calls |-> [Calls EXCEPT ![identifier] =
                                 [granted |-> IF res.ok THEN Append(c.granted, now)
                                              ELSE c.granted,
                                  call |-> [op |-> "is_allowed", ok |-> res.ok,
                                            at |-> now, waited |-> waited,
                                            told |-> IF waited THEN c.call.r ELSE 0]]]]
        /\ UNCHANGED <<now, transport, pc, roomOf, rooms, users, host, queue, state,
                       client_ips, active_downloads_per_ip, ingests, nextId,
                       download_queue, storage, locals>>

\* a call of rate_limiter.get_retry_after(identifier); denied_at is the time
\* of the denied is_allowed that was the identifier's call before this one
GetRetryAfter(identifier) ==
    LET c == Calls[identifier]
    IN  /\ out' = <<>>
        /\ last' = [op |-> "get_retry_after", identifier |-> identifier,
                    r |-> get_retry_after(rate_limiter, identifier, now),
                    calls |-> [Calls EXCEPT ![identifier].call =
                                 [op |-> "get_retry_after", at |-> now,
                                  r |-> get_retry_after(rate_limiter, identifier, now),
                                  denied_at |-> IF c.call.op = "is_allowed" /\ ~c.call.ok
                                                THEN Some(c.call.at) ELSE None]]]
        /\ UNCHANGED <<now, transport, pc, roomOf, rooms, users, host, queue, state,
                       client_ips, active_downloads_per_ip, ingests, nextId,
                       download_queue, storage, rate_limiter, locals>>

\* callers of two identifiers ask the limiter while the wall clock advances
NextRate ==
    \/ \E identifier \in Identities : IsAllowed(identifier)
    \/ \E identifier \in Identities : GetRetryAfter(identifier)
    \/ DownloadIdle /\ now < MaxRateTime /\ Elapse

SpecRate == InitPlayback /\ [][NextRate]_vars

\* ----------------------------------------------- specification: REST API
\* what yt-dlp's extract_info gives the estimator: it raises, or it returns
\* info with a duration (seconds) and the best audio format's filesize (bytes)
Lookups ==
    {[raises |-> TRUE, duration |-> None, best_size |-> None]}
       \cup {[raises |-> FALSE, duration |-> l[1], best_size |-> l[2]] :
               l \in {<<None, Some(8000000)>>, <<Some(0), None>>,
                      <<Some(300), None>>, <<Some(400), None>>,
                      <<Some(400), Some(8000000)>>, <<Some(300), Some(9000000)>>,
                      <<Some(300), Some(0)>>}}

\* what get_estimated_audio_size returns when the size cannot be determined
Blocked == [size |-> None, over |-> TRUE, duration |-> None]

get_estimated_audio_size_Open(info) ==
    [size |-> None, over |-> FALSE, duration |-> None]

\* get_estimated_audio_size(video_id, max_size_mb): int(x * 1.2) and
\* int(x * 1.3) in whole bytes
get_estimated_audio_size(info) ==
    IF info.raises \/ info.duration = None \/ info.duration = Some(0)
    THEN Blocked
    ELSE LET estimated_bytes_with_buffer ==
                 IF info.best_size # None /\ info.best_size # Some(0)
                 THEN (info.best_size[1] * 12) \div 10
                 ELSE (((info.duration[1] * audio_bitrate_kbps * 1024) \div 8) * 13) \div 10
         IN  [size |-> Some(estimated_bytes_with_buffer),
              over |-> estimated_bytes_with_buffer > max_size_mb * 1024 * 1024,
              duration |-> info.duration]

\* POST /download up to its first suspension (await task.future), Supabase
\* configured: rate limit, fast path for a stored blob (probe tells whether
\* the storage calls succeed), size check, add_task and tasks.get(task_id).
\* status is the HTTP status, or "waiting" after a submission; awaits is the
\* task object the handler waits for
DownloadYoutube(video_id, info, probe) ==
    LET lim == is_allowed(rate_limiter, "default", now)
        stored == probe /\ supabase_filename(video_id) \in storage
        est == get_estimated_audio_size(info)
        status == IF ~lim.ok THEN "429"
                  ELSE IF stored THEN "200"
                  ELSE IF est.over \/ est.size = None THEN "400"
                  ELSE "waiting"
        dq == add_task(start_workers(download_queue), video_id, now)
    IN  /\ status = "waiting" => Len(download_queue.tasks) < MaxRestTasks
        /\ rate_limiter' = lim.rl
        /\ download_queue' = IF status = "waiting" THEN dq ELSE download_queue
        /\ out' = <<>>
        /\ last' = [op |-> "download_youtube", video_id |-> video_id, status |-> status,
                    info |-> info,
                    est |-> IF lim.ok /\ ~stored THEN Some(est) ELSE None,
                    retry_after |-> IF lim.ok THEN None
                                    ELSE Some(get_retry_after(lim.rl, "default", now)),
                    awaits |-> IF status = "waiting"
                               THEN Some(dq.task_ids[task_id_of(video_id, now)])
                               ELSE None]
        /\ UNCHANGED <<now, transport, pc, roomOf, rooms, users, host, queue, state,
                       client_ips, active_downloads_per_ip, ingests, nextId, storage,
                       locals>>

\* REST clients ask for downloads, the first worker runs them, the wall
\* clock advances
NextRest ==
    \/ \E video_id \in DownloadVideoIds, info \in Lookups, probe \in BOOLEAN :
          DownloadYoutube(video_id, info, probe)
    \/ WorkerTake(1)
    \/ ThreadExists(1)
    \/ ThreadDownload(1)
    \/ WorkerStore(1)
    \/ WorkerExcept(1)
    \/ DownloadIdle /\ now < MaxRestTime /\ Elapse

SpecRest == InitPlayback /\ [][NextRest]_vars

\* a step of download_youtube: no other step of SpecRest changes last or the
\* rate limiter
RestStep ==
    /\ last'.op = "download_youtube"
    /\ <<last, rate_limiter>>' # <<last, rate_limiter>>

\* ----------------------------------------------------------- roster facts
Hosts(r) == {i \in 1..Len(users[r]) : users[r][i].role = "host"}

\* the envelopes of the last step that went to ws
OutTo(ws) == SelectSeq(out, LAMBDA e : e.to = ws)

OutOfType(type) == SelectSeq(out, LAMBDA e : e.type = type)

\* the sequence s without the entries of ws
Without(us, ws) == SelectSeq(us, LAMBDA u : u.ws # ws)

\* C3: in every reachable state of every room at most one user has role
\* host, and the host pointer is set exactly when such a user exists and
\* then refers to that user.
C3_HostUnique ==
    \A r \in Rooms :
        /\ Cardinality(Hosts(r)) <= 1
        /\ (host[r] # "none") <=> (Hosts(r) # {})
        /\ host[r] # "none" => RoleOf(users[r], host[r]) = "host"

\* C6: a set_moderator sent by a user who is not host changes no role and
\* no host pointer, and delivers exactly one envelope, an error to the sender.
C6_OnlyHostSetsModerator ==
    [][ (last'.op = "set_moderator" /\ RoleOf(users[last'.room], last'.ws) # "host")
          => /\ users' = users
             /\ host' = host
             /\ Len(out') = 1
             /\ out'[1].type = "error"
             /\ out'[1].to = last'.ws ]_vars

C6_Witness ==
    /\ last.op = "set_moderator"
    /\ last.role = "moderator"
    /\ ~last.ok
    /\ \E i \in 1..Len(users[last.room]) : users[last.room][i].role = "listener"

\* C7 as stated: when the host leaves and some other user has a connected
\* transport, afterwards exactly one remaining user is host, namely the first
\* connected moderator if there is one and the first connected user
\* otherwise, and every remaining user was sent a users_sync with the new
\* roster.
C7_SuccessionConnected ==
    [][ \A r \in Rooms :
          LET rest == Without(users[r], last'.ws)
              conn == {i \in 1..Len(rest) : transport[rest[i].ws] \in {"ok", "broken"}}
              mods == {i \in conn : rest[i].role = "moderator"}
              pick == IF mods # {} THEN mods ELSE conn
          IN  (last'.op = "leave" /\ last'.room = r /\ last'.was_host /\ conn # {})
                => \E i \in pick :
                     /\ \A j \in pick : i <= j
                     /\ host'[r] = rest[i].ws
                     /\ \A k \in 1..Len(users'[r]) :
                          (users'[r][k].role = "host") <=> (users'[r][k].ws = rest[i].ws)
                     /\ \A k \in 1..Len(users'[r]) :
                          \E n \in 1..Len(out') :
                             /\ out'[n].to = users'[r][k].ws
                             /\ out'[n].type = "users_sync"
                             /\ out'[n].p.users = users'[r] ]_vars

\* C7 amended: the same with "connected" read as "connected and accepting
\* sends": users whose send fails are removed by the roster broadcast of the
\* same leave, and succession runs again if one of them had been promoted.
C7_SuccessionLive ==
    [][ \A r \in Rooms :
          LET rest == Without(users[r], last'.ws)
              live == {i \in 1..Len(rest) : transport[rest[i].ws] = "ok"}
              mods == {i \in live : rest[i].role = "moderator"}
              pick == IF mods # {} THEN mods ELSE live
          IN  (last'.op = "leave" /\ last'.room = r /\ last'.was_host /\ live # {})
                => \E i \in pick :
                     /\ \A j \in pick : i <= j
                     /\ host'[r] = rest[i].ws
                     /\ \A k \in 1..Len(users'[r]) :
                          (users'[r][k].role = "host") <=> (users'[r][k].ws = rest[i].ws)
                     /\ \A k \in 1..Len(users'[r]) :
                          \E n \in 1..Len(out') :
                             /\ out'[n].to = users'[r][k].ws
                             /\ out'[n].type = "users_sync"
                             /\ out'[n].p.users = users'[r] ]_vars

C7_Witness ==
    /\ last.op = "leave"
    /\ last.was_host
    /\ Len(users[last.room]) = 2
    /\ host[last.room] = users[last.room][2].ws
    /\ \A i \in 1..2 : transport[users[last.room][i].ws] = "ok"

\* C8: whenever succession promotes a user of the room to host, a user_info
\* envelope with is_host = true is delivered to the new host, and to no
\* other connection.
C8_PromotionInformsNewHost ==
    [][ \A r \in Rooms :
          (host'[r] # host[r] /\ host'[r] # "none" /\ InUsers(users[r], host'[r]))
            => /\ \E n \in 1..Len(out') :
                    /\ out'[n].type = "user_info"
                    /\ out'[n].to = host'[r]
                    /\ out'[n].p.is_host
               /\ \A n \in 1..Len(out') :
                    (out'[n].type = "user_info" /\ out'[n].room = r /\ out'[n].p.is_host)
                      => out'[n].to = host'[r] ]_vars

C2_PausedHasNoStartTime ==
    \A r \in Rooms :
        ~state[r].is_playing => (state[r].start_time = None /\ state[r].position >= 0)

\* C4: in every reachable state of every room, the items at two distinct
\* positions of the queue have different ids.
C4_QueueIdsUnique ==
    \A r \in Rooms : \A i, j \in 1..Len(queue[r]) :
        i # j => queue[r][i].id # queue[r][j].id

C4_Witness ==
    /\ last.op = "repeat_track"
    /\ last.ok
    /\ Len(queue["r1"]) = 2

\* the playback-control and queue-edit commands
ControlOps == {"play", "pause", "seek", "set_track", "next-track", "previous-track",
               "shuffle_queue", "repeat_track", "delete_item", "reorder_item",
               "approve_item", "add_to_queue", "add_pending_download"}

\* C5: a playback-control or queue-edit command sent by a listener leaves the
\* playback state and the queue of every room unchanged and starts no ingest;
\* exactly one envelope is delivered, an error, to the sender.
C5_ListenerRefused ==
    [][ (last'.op \in ControlOps /\ RoleOf(users[last'.room], last'.ws) = "listener")
          => /\ state' = state
             /\ queue' = queue
             /\ ingests' = ingests
             /\ Len(out') = 1
             /\ out'[1].type = "error"
             /\ out'[1].to = last'.ws ]_vars

C5_Witness ==
    /\ last.op = "add_pending_download"
    /\ last.role = "listener"
    /\ ~last.ok
    /\ Len(out) = 1
    /\ state["r1"].is_playing
    /\ queue["r1"] # <<>>

\* C9: at every moment, for every address, at most one ingest has marked the
\* address in flight and not yet released it.
C9_OneIngestPerAddress ==
    \A ip \in Ips :
        Cardinality({t \in ingests : t.client_ip = ip /\ t.pc = "waiting"}) <= 1

\* C10: a ticker sweep that finds a room playing with start_time and duration
\* set, now - start_time >= duration and an available track in the queue
\* makes the next available track (the first available one after the current
\* track in cyclic queue order, or the first available one of the queue when
\* the current track is not in the queue) the current track and delivers a
\* next-track envelope with it to every user of the room.
C10_TickerAdvances ==
    [][ \A r \in Rooms :
          LET st == state[r]
              q == queue[r]
              n == Len(q)
              avail == {i \in 1..n : ~q[i].isPending /\ ~q[i].isSuggested /\ q[i].url # ""}
              cur == {i \in 1..n : st.track # None /\ q[i].id = st.track[1].id}
              after(i) == IF cur = {} THEN i
                          ELSE (i - (CHOOSE c \in cur : TRUE) - 1) % n
          IN  ( /\ last'.op = "ticker"
                /\ st.is_playing /\ st.start_time # None /\ st.duration # None
                /\ now - st.start_time[1] >= st.duration[1]
                /\ avail # {} )
                => \E i \in avail :
                     /\ \A j \in avail : after(i) <= after(j)
                     /\ state'[r].track = Some(q[i])
                     /\ \A k \in 1..Len(users[r]) :
                          \E m \in 1..Len(out') :
                             /\ out'[m].type = "next-track"
                             /\ out'[m].room = r
                             /\ out'[m].to = users[r][k].ws
                             /\ out'[m].p.track = Some(q[i]) ]_vars

C10_Witness ==
    /\ last.op = "ticker"
    /\ "r1" \in last.ended
    /\ Len(queue["r1"]) = 2
    /\ state["r1"].track = Some(queue["r1"][2])
    /\ Len(OutOfType("next-track")) = 3

\* C11 as stated: for a room whose position is 0, an authorized play at t1
\* followed by an authorized pause at t2, with no other command in between,
\* leaves position = t2 - t1 and is_playing = false, and the pause envelopes
\* carry that position.
C11_PlayThenPause ==
    [][ ( /\ last.op = "play" /\ last.ok /\ last.position = 0
          /\ last'.op = "pause" /\ last'.ok /\ last'.room = last.room )
          => /\ state'[last.room].position = now - last.at
             /\ ~state'[last.room].is_playing
             /\ OutOfType("pause")' # <<>>
             /\ \A n \in 1..Len(out') :
                  out'[n].type = "pause" => out'[n].p.position = now - last.at ]_vars

\* C11 amended: the same when, in addition, no ticker sweep advanced the room
\* between the play and the pause.
C11_PlayThenPauseUnswept ==
    [][ ( /\ last.op = "play" /\ last.ok /\ last.position = 0 /\ ~last.swept
          /\ last'.op = "pause" /\ last'.ok /\ last'.room = last.room )
          => /\ state'[last.room].position = now - last.at
             /\ ~state'[last.room].is_playing
             /\ OutOfType("pause")' # <<>>
             /\ \A n \in 1..Len(out') :
                  out'[n].type = "pause" => out'[n].p.position = now - last.at ]_vars

C11_Witness ==
    /\ last.op = "pause"
    /\ last.ok
    /\ now = 2
    /\ state["r1"].start_time = Some(0)
    /\ state["r1"].position = 2
    /\ ~state["r1"].is_playing
    /\ Len(OutOfType("pause")) = 3

\* C12: an authorized play at time t in a room whose stored position is p
\* sets is_playing = true and start_time = t - p, and delivers a play envelope
\* with that start_time to every connected user of the room.
C12_PlaySetsStartTime ==
    [][ (last'.op = "play" /\ last'.ok)
          => LET r == last'.room
                 expected == Some(now - state[r].position)
             IN  /\ state'[r].is_playing
                 /\ state'[r].start_time = expected
                 /\ \A k \in 1..Len(users[r]) :
                      transport[users[r][k].ws] = "ok"
                        => \E n \in 1..Len(out') :
                             /\ out'[n].to = users[r][k].ws
                             /\ out'[n].type = "play"
                             /\ out'[n].p.start_time = expected ]_vars

C12_Witness ==
    /\ last.op = "play"
    /\ last.ok
    /\ last.at = 2
    /\ last.position = 1
    /\ state["r1"].start_time = Some(1)
    /\ Len(OutOfType("play")) = 3

\* C13: get_state sent at time t by any user of a playing room is answered
\* with one state_sync, delivered to the sender only, whose position is
\* t - start_time and whose is_playing is true; get_state never changes
\* track, is_playing, start_time, duration or the queue.
C13_GetStateAnswers ==
    [][ last'.op = "get_state"
          => LET r == last'.room
             IN  /\ state'[r].track = state[r].track
                 /\ state'[r].is_playing = state[r].is_playing
                 /\ state'[r].start_time = state[r].start_time
                 /\ state'[r].duration = state[r].duration
                 /\ queue' = queue
                 /\ state[r].is_playing
                      => /\ Len(out') = 1
                         /\ out'[1].to = last'.ws
                         /\ out'[1].type = "state_sync"
                         /\ out'[1].p.is_playing
                         /\ out'[1].p.position = now - state[r].start_time[1] ]_vars

C13_Witness ==
    /\ last.op = "get_state"
    /\ last.role = "listener"
    /\ now = 2
    /\ state["r1"].is_playing
    /\ state["r1"].track # None
    /\ out[1].p.position = 2

\* C14: an authorized seek(x) in a paused room sets position = x and leaves
\* is_playing = false; an authorized seek(x) at time t in a playing room sets
\* start_time = t - x and leaves is_playing = true.
C14_SeekMoves ==
    [][ (last'.op = "seek" /\ last'.ok)
          => LET r == last'.room
                 x == last'.new_pos
             IN  IF state[r].is_playing
                 THEN /\ state'[r].is_playing
                      /\ state'[r].start_time = Some(now - x)
                 ELSE /\ ~state'[r].is_playing
                      /\ state'[r].position = x ]_vars

C14_Witness ==
    /\ last.op = "seek"
    /\ last.ok
    /\ last.new_pos = 1
    /\ now = 2
    /\ state["r1"].is_playing
    /\ state["r1"].start_time = Some(1)
    /\ state["r1"].track # None

\* C15: shuffle_queue leaves the queue a permutation of what it was (the same
\* items, each as often as before, the same length), and when the queue holds
\* the current track's entry, that entry is the first item afterwards.
C15_ShufflePermutes ==
    [][ (last'.op = "shuffle_queue" /\ last'.ok)
          => LET r == last'.room
                 q == queue[r]
                 q1 == queue'[r]
                 cur == state[r].track
             IN  /\ Len(q1) = Len(q)
                 /\ \A i \in 1..Len(q) :
                       Cardinality({k \in 1..Len(q1) : q1[k] = q[i]})
                         = Cardinality({k \in 1..Len(q) : q[k] = q[i]})
                 /\ (cur # None /\ IndexOfId(q, cur[1].id) > 0)
                       => q1[1].id = cur[1].id ]_vars

C15_Witness ==
    /\ last.op = "shuffle_queue"
    /\ last.ok
    /\ Len(queue["r1"]) = 3
    /\ state["r1"].track # None
    /\ state["r1"].track[1].id = 2
    /\ queue["r1"][1].id = 2
    /\ queue["r1"][2].id = 3
    /\ queue["r1"][3].id = 1

\* C16: repeat_track with a current track makes the queue one item longer;
\* the added item has an id no item of the queue had; when the current track
\* is at index i of the queue the copy is at index i + 1, and the other items
\* are the old queue in its old order.
C16_RepeatInsertsAfterCurrent ==
    [][ (last'.op = "repeat_track" /\ last'.ok)
          => LET r == last'.room
                 q == queue[r]
                 q1 == queue'[r]
                 ci == IndexOfId(q, state[r].track[1].id)
             IN  /\ Len(q1) = Len(q) + 1
                 /\ \E k \in 1..Len(q1) :
                       /\ \A i \in 1..Len(q) : q[i].id # q1[k].id
                       /\ [i \in 1..Len(q) |-> IF i < k THEN q1[i] ELSE q1[i + 1]] = q
                       /\ ci > 0 => k = ci + 1 ]_vars

C16_Witness ==
    /\ last.op = "repeat_track"
    /\ last.ok
    /\ Len(queue["r1"]) = 3
    /\ state["r1"].track # None
    /\ state["r1"].track[1].id = 1
    /\ queue["r1"][1].id = 1
    /\ queue["r1"][2].id = 3
    /\ queue["r1"][3].id = 2

\* C17: when the current track is in the queue, a next-track command
\* followed at once by a previous-track command leaves the current track the
\* one it started from.
C17_NextThenPrevious ==
    (last.op = "previous-track" /\ last.ok /\ last.start # None)
       => /\ state[last.room].track # None
          /\ state[last.room].track[1].id = last.start[1].id

\* C17 as the code keeps it: the same, when the item that follows the
\* starting track in the queue (wrapping around) is available, so that
\* next-track selects it.
C17_NextThenPreviousAvailable ==
    (last.op = "previous-track" /\ last.ok /\ last.start # None /\ last.follower_available)
       => /\ state[last.room].track # None
          /\ state[last.room].track[1].id = last.start[1].id

C17_Witness ==
    /\ last.op = "previous-track"
    /\ last.ok
    /\ last.start # None
    /\ last.follower_available
    /\ Len(queue["r1"]) = 3
    /\ \E i \in 1..3 : queue["r1"][i].isSuggested
    /\ state["r1"].track # None
    /\ state["r1"].track[1].id = last.start[1].id
    /\ queue["r1"][3].id = last.start[1].id

\* the indices of the download tasks created so far
TaskIds == 1..Len(download_queue.tasks)

\* C18: a download task's status only moves pending -> processing ->
\* completed or pending -> processing -> failed, and once it is completed or
\* failed its status, result and error never change, also when the caller's
\* deadline expired before the worker finished.
C18_TaskLifecycle ==
    [][ \A t \in TaskIds :
          LET old == download_queue.tasks[t]
              new == download_queue'.tasks[t]
          IN  /\ \/ new.status = old.status
                 \/ old.status = "pending" /\ new.status = "processing"
                 \/ old.status = "processing" /\ new.status \in {"completed", "failed"}
              /\ old.status \in {"completed", "failed"}
                    => /\ new.status = old.status
                       /\ new.result = old.result
                       /\ new.error = old.error ]_vars

\* C19: at every moment at most max_workers download tasks have the status
\* "processing".
C19_AtMostWProcessing ==
    Cardinality({t \in TaskIds : download_queue.tasks[t].status = "processing"})
       <= max_workers

C19_Witness ==
    /\ Cardinality({t \in TaskIds : download_queue.tasks[t].status = "processing"})
          = max_workers
    /\ download_queue.queue # <<>>
    /\ \A w \in 1..max_workers : download_queue.workers[w].pc = "download"

\* C20: two completed download tasks of the same video_id carry the same url
\* in their results, the url of the blob key yt-<video_id>.mp3, whichever
\* path each took.
C20_SameVideoSameUrl ==
    \A t1, t2 \in TaskIds :
       LET a == download_queue.tasks[t1]
           b == download_queue.tasks[t2]
       IN  (a.status = "completed" /\ b.status = "completed" /\ a.video_id = b.video_id)
              => /\ a.result[1].url = b.result[1].url
                 /\ a.result[1].url = final_url(supabase_filename(a.video_id))

C20_Witness ==
    \E t1, t2 \in TaskIds :
       LET a == download_queue.tasks[t1]
           b == download_queue.tasks[t2]
       IN  /\ a.status = "completed" /\ b.status = "completed"
           /\ a.video_id = b.video_id
           /\ a.result[1].message = ""
           /\ b.result[1].message # ""

\* C21: on every exit path of a session whose transport was added to the
\* room, when the session handler returns the transport is neither in
\* room.users nor in client_ips.
C21_ExitCleansUp ==
    [][ \A ws \in Conns :
          (pc[ws] # "done" /\ pc'[ws] = "done")
             => /\ ~InUsers(users'[roomOf[ws]], ws)
                /\ ws \notin DOMAIN client_ips' ]_vars

\* C22: the registry never loses a room: once a slug has a Room, no step
\* replaces or removes it, and a session opened on the slug later finds the
\* room's queue and state as they were, also after all its users left, a
\* session ended with an error, or an ingest failed.
C22_RoomsPersist ==
    [][ \A r \in Rooms :
          rooms[r] # 0
             => /\ rooms'[r] = rooms[r]
                /\ (last'.op \in {"join", "join_bcast", "join_trio", "leave", "break"})
                      => (queue'[r] = queue[r] /\ state'[r] = state[r]) ]_vars

C22_Witness ==
    /\ last.op = "join"
    /\ last.room = "r1"
    /\ Len(users["r1"]) = 1
    /\ \E ws \in Conns : pc[ws] = "done" /\ roomOf[ws] = "r1"
    /\ queue["r1"] # <<>>
    /\ state["r1"].track # None
    /\ rooms["r2"] = 1

\* C23: every ingest started by add_pending_download ends, and when it ends
\* its address has no in-flight entry, whatever the outcome of the download;
\* an in-flight entry is always released later; and an authorized
\* add_pending_download from an address without an in-flight entry is
\* accepted: a new pending item is enqueued.
C23_IngestReleases ==
    /\ \A id \in 1..MaxIngestIds :
          (\E t \in ingests : t.queue_item_id = id)
             ~> ~(\E t \in ingests : t.queue_item_id = id)
    /\ \A ip \in Ips : HasActiveDownload(ip) ~> ~HasActiveDownload(ip)
    /\ [][ (last'.op = "ingest_finish")
             => last'.client_ip \notin DOMAIN active_downloads_per_ip' ]_vars
    /\ [][ (/\ last'.op = "add_pending_download"
            /\ last'.role \in {"host", "moderator"}
            /\ ~HasActiveDownload(client_ips[last'.ws]))
             => /\ last'.ok
                /\ Len(queue'[last'.room]) = Len(queue[last'.room]) + 1
                /\ queue'[last'.room][Len(queue'[last'.room])].isPending ]_vars

C23_Witness ==
    /\ last.op = "add_pending_download"
    /\ last.ok
    /\ Len(queue[last.room]) = 2
    /\ ~queue[last.room][1].isPending
    /\ queue[last.room][1].url = ""
    /\ queue[last.room][2].isPending
    /\ active_downloads_per_ip = <<>>

\* C24: remove_user for a transport that is not in room.users (a session
\* ends whose user a broadcast had already removed) changes neither users
\* nor host nor any role and sends no envelope.
C24_LeaveIdempotent ==
    [][ (last'.op = "leave" /\ ~InUsers(users[last'.room], last'.ws))
          => /\ users' = users
             /\ host' = host
             /\ out' = <<>> ]_vars

C24_Witness ==
    /\ last.op = "leave"
    /\ out = <<>>
    /\ ~InUsers(users[last.room], last.ws)
    /\ Len(users[last.room]) = 2
    /\ \A i \in 1..2 : SendOk(users[last.room][i].ws)

\* C25: in every reachable state of every room, state.duration is the
\* duration of the current track, and none when there is no current track.
C25_DurationReflectsTrack ==
    \A r \in Rooms :
       state[r].duration = IF state[r].track = None THEN None
                           ELSE state[r].track[1].duration

\* C26: every queue item that is pending has an empty url and a video_id,
\* whatever item an authorized client sent with add_pending_download.
C26_PendingShape ==
    \A r \in Rooms : \A i \in 1..Len(queue[r]) :
       queue[r][i].isPending => queue[r][i].url = "" /\ queue[r][i].video_id # "none"

\* the selection rule of next-track as the specification words it: from the
\* current track at 1-based index c the positions c+1, c+2, ... (wrapping
\* around, len of them), from the start when there is no current track or it
\* is not in the queue; the first position holding an available item, 0 if
\* there is none
C27_Scan(q, tr) ==
    LET len == Len(q)
        c == IF tr = None THEN 0 ELSE IndexOfId(q, tr[1].id)
        order == [k \in 1..len |-> IF c = 0 THEN k ELSE ((c - 1 + k) % len) + 1]
        hits == {k \in 1..len : Available(q[order[k]])}
    IN  IF hits = {} THEN 0 ELSE order[MinOf(hits)]

\* C27: next-track, sent by a host or moderator or made by the ticker for a
\* room whose track ended, makes the item chosen by the scan the current
\* track and broadcasts next-track; that item is never pending, suggested or
\* without url; when the scan finds none, the state stays as it is and
\* nothing is sent to the room.
C27_NextTrackSelects ==
    [][\A r \in Rooms :
          (\/ last'.op = "next-track" /\ last'.ok /\ last'.room = r
           \/ last'.op = "ticker" /\ r \in last'.ended)
          => LET sel == C27_Scan(queue[r], state[r].track)
             IN  IF sel = 0
                 THEN /\ state'[r] = state[r]
                      /\ \A i \in 1..Len(out') : out'[i].room # r
                 ELSE /\ Available(queue[r][sel])
                      /\ state'[r].track = Some(queue[r][sel])
                      /\ \E i \in 1..Len(out') :
                            out'[i].room = r /\ out'[i].type = "next-track"]_vars

\* next-track passed over a pending item and an item that is suggested or
\* has no url, and made the third item the current track
C27_Witness ==
    /\ last.op = "next-track" /\ last.ok
    /\ Len(queue["r1"]) = 3
    /\ queue["r1"][1].isPending
    /\ ~queue["r1"][2].isPending /\ ~Available(queue["r1"][2])
    /\ Available(queue["r1"][3])
    /\ state["r1"].track = Some(queue["r1"][3])
    /\ \E i \in 1..Len(out) : out[i].type = "next-track"

\* C28: an authorized delete_item(id) removes the item; when id is not the
\* id of the current track the playback state stays as it is and the handler
\* is done; when it is, the handler goes on after its queue_sync: if an
\* available item is left the current track becomes the one the selection
\* rule of next-track chooses, paused at position 0; if none is left the
\* track is none, is_playing false, start_time none, and set_track with a
\* null track is broadcast.
C28_DeleteCurrent ==
    [][/\ \A ws \in {"a", "b"}, id \in 1..MaxDeleteIds :
             (DeleteItem(ws, id) /\ last'.ok)
             => LET r == roomOf[ws]
                    cur == state[r].track # None /\ state[r].track[1].id = id
                IN  /\ IndexOfId(queue'[r], id) = 0
                    /\ state'[r] = state[r]
                    /\ pc'[ws] = IF cur THEN "delete_resume" ELSE "loop"
       /\ last'.op = "delete_resume"
             => LET r == last'.room
                    sel == C27_Scan(queue[r], state[r].track)
                IN  /\ queue'[r] = queue[r]
                    /\ pc'[last'.ws] = "loop"
                    /\ IF \E i \in 1..Len(queue[r]) : Available(queue[r][i])
                       THEN /\ sel > 0
                            /\ state'[r].track = Some(queue[r][sel])
                            /\ ~state'[r].is_playing
                            /\ state'[r].position = 0
                       ELSE /\ state'[r].track = None
                            /\ ~state'[r].is_playing
                            /\ state'[r].start_time = None
                            /\ \E i \in 1..Len(out') :
                                  /\ out'[i].type = "set_track"
                                  /\ out'[i].p.track = None]_vars

\* the current track was deleted and the item left in the queue took its place
C28_Witness ==
    /\ last.op = "delete_resume"
    /\ Len(queue["r1"]) = 1
    /\ ingests = {}
    /\ state["r1"].track = Some(queue["r1"][1])
    /\ ~state["r1"].is_playing
    /\ \E i \in 1..Len(out) : out[i].type = "next-track"

\* C29: when an ingest ends, no queue item other than its own changes and
\* none is added or removed; its own item, if still in the queue, is no
\* longer pending and has, after a completed download, the url of the result
\* and no video_id, and after a failure or a timeout an empty url; the queue
\* is sent as queue_sync to every user of the room.
C29_IngestPatches ==
    [][\A t \in ingests, o \in {"completed", "failed", "timeout"}, res \in PlaybackResults :
          IngestFinish(t, o, res)
          => LET r == t.room
                 q == queue[r]
                 q2 == queue'[r]
                 ci == IndexOfId(q, t.queue_item_id)
             IN  /\ Len(q2) = Len(q)
                 /\ \A i \in 1..Len(q) : i # ci => q2[i] = q[i]
                 /\ ci > 0 => /\ q2[ci].id = t.queue_item_id
                              /\ ~q2[ci].isPending
                              /\ IF o = "completed"
                                 THEN q2[ci].url = res.url /\ q2[ci].video_id = "none"
                                 ELSE q2[ci].url = ""
                 /\ \A k \in 1..Len(users'[r]) :
                       \E i \in 1..Len(out') :
                          /\ out'[i].to = users'[r][k].ws
                          /\ out'[i].type = "queue_sync"
                          /\ out'[i].p = q2]_vars

\* a download completed for the second of two queue items
C29_Witness ==
    /\ last.op = "ingest_finish" /\ last.outcome = "completed"
    /\ Len(queue["r1"]) = 2
    /\ queue["r1"][2].id = last.item
    /\ ~queue["r1"][2].isPending
    /\ queue["r1"][2].url \in Urls
    /\ queue["r1"][2].video_id = "none"
    /\ \E i \in 1..Len(out) : out[i].type = "queue_sync"

\* is the item with this id in the queue of the room, and pending
C30_Pending(r, id) ==
    \E i \in 1..Len(queue[r]) : queue[r][i].id = id /\ queue[r][i].isPending

\* C30: a queue item that is pending is later not pending or not in the
\* queue, when every ingest task is run and every wait for a download ends.
C30_PendingResolves ==
    \A r \in Rooms : \A id \in 1..MaxQueueIds :
       C30_Pending(r, id) ~> ~C30_Pending(r, id)

\* a download timed out and its item is in the queue as a failure marker
C30_Witness ==
    /\ last.op = "ingest_finish" /\ last.outcome = "timeout"
    /\ \E i \in 1..Len(queue["r1"]) :
          /\ queue["r1"][i].id = last.item
          /\ ~queue["r1"][i].isPending
          /\ queue["r1"][i].url = ""
          /\ queue["r1"][i].video_id # "none"

\* the steps in which a room broadcasts to its users: the roster broadcast
\* of a join, of a leave of a user, of set_moderator, and dance
C31_Broadcasts ==
    \/ last'.op \in {"join_bcast", "dance"}
    \/ last'.op = "set_moderator" /\ last'.ok
    \/ last'.op = "leave" /\ InUsers(users[last'.room], last'.ws)

\* C31: when a broadcast of a room has returned, no user of the room at the
\* time of the broadcast whose transport is not connected or fails a send is
\* in room.users; if the host was among them, the host is none or a user
\* of the room with role host whose sends succeed; every envelope of the
\* step went to a transport that was in this room's users and in no other
\* room's; and the nested roster broadcasts end: a broadcast to n users
\* makes at most n + 1 rounds of at most n + 1 sends.
C31_BroadcastRemovesDead ==
    [][C31_Broadcasts
       => LET r == last'.room
              n == Len(users[r])
          IN  /\ \A k \in 1..n :
                    ~SendOk(users[r][k].ws) => ~InUsers(users'[r], users[r][k].ws)
              /\ \A k \in 1..Len(users'[r]) : transport'[users'[r][k].ws] = "ok"
              /\ (host[r] # "none" /\ ~InUsers(users'[r], host[r]))
                    => \/ host'[r] = "none" /\ users'[r] = <<>>
                       \/ /\ InUsers(users'[r], host'[r])
                          /\ RoleOf(users'[r], host'[r]) = "host"
              /\ \A i \in 1..Len(out') :
                    /\ out'[i].room = r
                    /\ InUsers(users[r], out'[i].to)
                    /\ \A r2 \in Rooms \ {r} : ~InUsers(users[r2], out'[i].to)
              /\ Len(out') <= (n + 1) * (n + 1)]_vars

\* a broadcast found two dead users, the host among them, and the room is
\* left with the one live user as host
C31_Witness ==
    /\ last.op = "dance"
    /\ Len(users["r1"]) = 1
    /\ host["r1"] = users["r1"][1].ws
    /\ transport[users["r1"][1].ws] = "ok"
    /\ Cardinality({ws \in Conns : roomOf[ws] = "r1" /\ transport[ws] \in {"broken", "closed"}
                                   /\ pc[ws] = "loop"}) = 2
    /\ \E i \in 1..Len(out) : out[i].type = "users_sync"

\* C32: a joiner is sent state_sync, queue_sync and user_info before the
\* roster broadcast of its join: no users_sync goes to a transport whose
\* session has added its user and has not yet sent the three.
C32_TrioBeforeRoster ==
    [][\A i \in 1..Len(out') :
          out'[i].type = "users_sync"
          => pc[out'[i].to] \notin {"join_bcast", "join_trio"}]_vars

\* a refused command: nothing changes in any room, the sender gets an error
C33_Refused(ws) ==
    /\ users' = users
    /\ host' = host
    /\ Len(out') = 1 /\ out'[1].type = "error" /\ out'[1].to = ws

\* C33: every role is host, moderator or listener; a set_moderator that is
\* refused changes nothing and sends the sender an error; one that is
\* carried out has a target that is neither the host of the room nor of
\* role host: the target, as long as it stays in the room, has the
\* requested role, moderator or listener, is sent user_info with that role
\* when its transport takes a send, and every user left in the room is sent
\* the roster; the user who was host keeps role host.
C33_SetModerator ==
    /\ [](\A r \in Rooms : \A k \in 1..Len(users[r]) :
             users[r][k].role \in {"host", "moderator", "listener"})
    /\ [][(last'.op = "set_moderator" /\ ~last'.ok) => C33_Refused(last'.ws)]_vars
    /\ [][(last'.op = "set_moderator" /\ last'.ok)
             => LET r == last'.room
                    tw == last'.target
                    want == IF last'.is_moderator THEN "moderator" ELSE "listener"
                IN  /\ InUsers(users[r], tw)
                    /\ RoleOf(users[r], tw) # "host" /\ tw # host[r]
                    /\ InUsers(users'[r], tw) => RoleOf(users'[r], tw) = want
                    /\ SendOk(tw)
                          => \E i \in 1..Len(out') :
                                /\ out'[i].to = tw /\ out'[i].type = "user_info"
                                /\ out'[i].p.role = want
                    /\ \A k \in 1..Len(users'[r]) :
                          \E i \in 1..Len(out') :
                             /\ out'[i].to = users'[r][k].ws
                             /\ out'[i].type = "users_sync"
                    /\ InUsers(users'[r], host[r])
                          => RoleOf(users'[r], host[r]) = "host"]_vars

\* the host made one user moderator; the third user is a listener
C33_Witness ==
    /\ last.op = "set_moderator" /\ last.ok
    /\ Len(users["r1"]) = 3
    /\ RoleOf(users["r1"], last.ws) = "host"
    /\ RoleOf(users["r1"], last.target) = "moderator"
    /\ \E k \in 1..3 : users["r1"][k].role = "listener"
    /\ \E i \in 1..Len(out) : out[i].type = "user_info" /\ out[i].to = last.target

\* C34: for every identifier and every sequence of is_allowed calls at
\* non-decreasing times, is_allowed answers true exactly when fewer than
\* max_requests admissions of the identifier are younger than time_window;
\* the admissions inside any interval shorter than time_window never exceed
\* max_requests; a denied call records nothing.
C34_Window ==
    /\ [][ (last'.op = "is_allowed" /\ now' = now)
             => LET id == last'.identifier
                    g == Calls[id].granted
                    before == rate_limiter.requests[id]
                    after == rate_limiter'.requests[id]
                IN  /\ last'.ok <=> Cardinality({k \in 1..Len(g) : now - g[k] < time_window})
                                       < max_requests
                    /\ ~last'.ok
                         => /\ Len(after) <= Len(before)
                            /\ \A k \in 1..Len(after) :
                                  \E j \in 1..Len(before) : before[j] = after[k] ]_vars
    /\ [](\A id \in Identities :
            LET g == Calls[id].granted
            IN  \A i \in 1..Len(g) :
                   Cardinality({k \in 1..Len(g) :
                                  g[i] <= g[k] /\ g[k] < g[i] + time_window})
                     <= max_requests)

C34_Witness ==
    /\ last.op = "is_allowed"
    /\ last.identifier = "default"
    /\ last.ok
    /\ now = time_window
    /\ Calls["default"].granted = <<0, 0, time_window>>
    /\ Calls["x"].call.op = "is_allowed"
    /\ ~Calls["x"].call.ok

\* C35: when is_allowed denied an identifier at time t and get_retry_after
\* then returned r, an is_allowed at time t + r with no other call for that
\* identifier in between is admitted; get_retry_after returns 0 for an
\* identifier without recorded admissions and never a negative value.
C35_RetryAfter ==
    [][ /\ (last'.op = "is_allowed" /\ now' = now)
            => LET c == Calls[last'.identifier].call
               IN  ( /\ c.op = "get_retry_after"
                     /\ c.denied_at # None
                     /\ now = c.denied_at[1] + c.r ) => last'.ok
        /\ (last'.op = "get_retry_after" /\ now' = now)
            => /\ last'.r >= 0
               /\ rate_limiter.requests[last'.identifier] = <<>> => last'.r = 0 ]_vars

\* C35 amended: the same with the wait counted from the time t' >= t at
\* which get_retry_after was called.
C35_RetryAfterFromCall ==
    [][ /\ (last'.op = "is_allowed" /\ now' = now)
            => LET c == Calls[last'.identifier].call
               IN  ( /\ c.op = "get_retry_after"
                     /\ c.denied_at # None
                     /\ now = c.at + c.r ) => last'.ok
        /\ (last'.op = "get_retry_after" /\ now' = now)
            => /\ last'.r >= 0
               /\ rate_limiter.requests[last'.identifier] = <<>> => last'.r = 0 ]_vars

C35_Witness ==
    /\ last.op = "is_allowed"
    /\ last.identifier = "default"
    /\ last.ok
    /\ Calls["default"].call.waited
    /\ Calls["default"].call.told = 1
    /\ now = 2
    /\ Calls["default"].granted = <<0, 0, 2>>
    /\ Calls["x"].call.op = "get_retry_after"
    /\ Calls["x"].call.r = 0
    /\ Calls["x"].granted = <<>>

\* C36: for every download task whose blob key yt-<video_id>.mp3 exists when
\* the worker probes the store, the task completes with the message "File
\* already exists in storage" and the worker performs no extraction and no
\* upload.
C36_ExistingBlob ==
    [][ \A w \in 1..max_workers :
          LET old == download_queue.workers[w]
              new == download_queue'.workers[w]
          IN  /\ (old.pc = "check" /\ new.pc # "check" /\ new.file_exists = Some(TRUE))
                 => /\ new.pc = "returned"
                    /\ new.ret = Some(exists_result(download_queue.tasks[old.task].video_id))
              /\ (old.file_exists = Some(TRUE) /\ old.pc # "check")
                 => /\ storage' = storage
                    /\ new.pc # "download" ]_vars

\* C37: download_youtube never submits a task when the size estimate is
\* unknown or over the limit: it ends with status 400 and the download queue
\* and the task map are as they were; the estimator returns (None, True,
\* None) whenever the duration cannot be determined or the lookup raises.
C37_FailClosed ==
    [][ RestStep
          => /\ (last'.est # None /\ (last'.est[1].size = None \/ last'.est[1].over))
                   => /\ last'.status = "400"
                      /\ download_queue' = download_queue
             /\ download_queue' # download_queue
                   => /\ last'.est # None
                      /\ last'.est[1].size # None
                      /\ ~last'.est[1].over
             /\ (last'.est # None
                   /\ (last'.info.raises \/ last'.info.duration \in {None, Some(0)}))
                   => last'.est[1] = Blocked ]_vars

C37_Witness ==
    /\ last.op = "download_youtube"
    /\ last.status = "400"
    /\ last.video_id = "v2"
    /\ last.info.duration = Some(400)
    /\ last.info.best_size = None
    /\ last.est # None
    /\ last.est[1].over
    /\ supabase_filename("v1") \in storage
    /\ Len(download_queue.tasks) = 1
    /\ download_queue.tasks[1].status = "completed"

\* C39: every add_task creates a new entry in the task map under a task_id
\* no earlier task has, so after n submissions the map holds n tasks, and each
\* caller that looks up its task_id awaits the task it submitted, also when
\* the same video_id is submitted twice at the same clock reading.
C39_OneEntryPerTask ==
    /\ Cardinality(DOMAIN download_queue.task_ids) = Len(download_queue.tasks)
    /\ \A t \in 1..Len(download_queue.tasks) :
          download_queue.task_ids[download_queue.tasks[t].task_id] = t

\* C38: delete_item changes or clears the room's current track only if the
\* deleted id is the id of the track that is current at the moment of that
\* change: a track installed by another client's set_track (or by a ticker
\* advance) while delete_item was suspended in its queue_sync broadcast is not
\* replaced or cleared by the resumed delete_item.
C38_DeleteOnlyCurrent ==
    [][ last'.op = "delete_resume"
          => LET r == last'.room
                 item_id == locals[last'.ws][1].item_id
             IN  state'[r].track # state[r].track
                    => is_current_track(state[r], item_id) ]_vars

\* C40: a ticker sweep changes nothing in a room that is paused, has no
\* start_time, has no duration, or whose elapsed time now - start_time is
\* below duration: track, is_playing, start_time, position, duration and
\* queue stay as they were and no envelope goes to the room; after the ticker
\* advanced a room, the room has is_playing = false, start_time = none and
\* position = 0, so that the next sweep leaves it alone.
C40_TickerFrame ==
    [][ last'.op = "ticker"
          => \A r \in Rooms :
               LET st == state[r]
                   q == queue[r]
                   quiet == \/ ~st.is_playing
                            \/ st.start_time = None
                            \/ st.duration = None
                            \/ now - st.start_time[1] < st.duration[1]
                   avail == {i \in 1..Len(q) :
                               ~q[i].isPending /\ ~q[i].isSuggested /\ q[i].url # ""}
               IN  /\ quiet
                      => /\ state'[r].track = st.track
                         /\ state'[r].is_playing = st.is_playing
                         /\ state'[r].start_time = st.start_time
                         /\ state'[r].position = st.position
                         /\ state'[r].duration = st.duration
                         /\ queue'[r] = q
                         /\ \A m \in 1..Len(out') : out'[m].room # r
                   /\ (~quiet /\ avail # {})
                      => /\ ~state'[r].is_playing
                         /\ state'[r].start_time = None
                         /\ state'[r].position = 0
                         /\ ~track_ended(state'[r], now)
                         /\ \E m \in 1..Len(out') :
                               out'[m].room = r /\ out'[m].type = "next-track"
                   /\ (last.op = "ticker" /\ r \in last.ended /\ ~st.is_playing)
                      => /\ state'[r] = st
                         /\ r \notin last'.ended ]_vars

\* a sweep found the room playing a track that had not yet ended
C40_Witness ==
    /\ last.op = "ticker"
    /\ last.ended = {}
    /\ out = <<>>
    /\ state["r1"].is_playing
    /\ state["r1"].track # None
    /\ state["r1"].start_time # None
    /\ state["r1"].duration # None
    /\ now - state["r1"].start_time[1] < state["r1"].duration[1]
    /\ Len(queue["r1"]) = 2

=============================================================================
